---- MODULE Spec2Model ----
(***************************************************************************)
(* A model of the IhgedasBlockchain ledger: the command-line entry point   *)
(* (create, createwallet, send, reindex), the block log in data/blocks,    *)
(* the UTXO index in data/utxos, the wallet store in data/wallets and the  *)
(* rate-limit contract that guards send.                                   *)
(*                                                                         *)
(* SHA-256 is modelled as an injective function: a digest is the tagged    *)
(* tuple of the serialized fields.  An Ed25519 signature is the tagged     *)
(* tuple of the message and the secret key.  Strings and byte vectors that *)
(* hold digests are tuples (the empty string is <<>>); public keys, public *)
(* key hashes and coinbase payloads are strings.                           *)
(***************************************************************************)
EXTENDS Integers, Sequences, FiniteSets, TLC

(***************************************************************************)
(* Bounds of the model.                                                    *)
(***************************************************************************)
\* send is not run once the log holds this many block records.
MaxBlocks == 3
\* The same, in the specification of the longer logs.
DeepBlocks == 4
\* The same, when the commands are run one store write at a time.
MaxStepBlocks == 2
\* The wall clock (seconds) is not advanced past this reading.
MaxClock == 299
\* The number of classes of the abstract digest used for the difficulty test.
PowClasses == 3
\* The nonces tried when the nonce of a stored block is replaced are 0..MaxNonce.
MaxNonce == 6
\* The number of threads of one process that run the send handler.
NumThreads == 2
\* The clock of the runs of one contract instance is not advanced past this reading.
MaxContractClock == 900
\* The number of execute calls made on one contract instance.
MaxCalls == 4

\* The addresses the wallet generator can produce and the commands can name.
Addresses == {"A", "B"}
\* The AMOUNT arguments of send that are explored.
Amounts == {30, 100, 999}

(***************************************************************************)
(* Program constants.                                                      *)
(***************************************************************************)
TARGET_HEXT == 4
GENESIS_COINBASE_DATA == "This is the Genesis Block"
RATE_LIMIT_INTERVAL == 300
COINBASE_REWARD == 100
\* The gap between two commands: just under the interval.
Gaps == {RATE_LIMIT_INTERVAL - 1}

(***************************************************************************)
(* Option values and key-value stores.                                     *)
(***************************************************************************)
None == <<>>
Some(x) == <<x>>
IsSome(o) == Len(o) = 1
Unwrap(o) == o[1]

EmptyDb == <<>>
DbInsert(db, k, v) == [x \in (DOMAIN db) \cup {k} |-> IF x = k THEN v ELSE db[x]]
DbRemove(db, k) == [x \in (DOMAIN db) \ {k} |-> db[x]]
DbGet(db, k) == IF k \in DOMAIN db THEN Some(db[k]) ELSE None

\* All the orders in which a set can be enumerated.
RECURSIVE Perms(_)
Perms(S) == IF S = {} THEN {<<>>}
            ELSE UNION {{<<x>> \o p : p \in Perms(S \ {x})} : x \in S}

RECURSIVE SumSeq(_)
SumSeq(s) == IF s = <<>> THEN 0 ELSE s[1] + SumSeq(Tail(s))

(***************************************************************************)
(* Wallets, keys and addresses  (wallet/mod.rs, tx/mod.rs).                *)
(***************************************************************************)
\* The key pair generated for the wallet whose address is a.
Wallet(a) == [secret_key |-> "sk" \o a, public_key |-> "pk" \o a]

\* Address::decode(addr).body: the 20-byte public-key hash of an address.
AddressBody(a) == "h" \o a

\* hash_pub_key: RIPEMD-160(SHA-256(public key)).
hash_pub_key(pk) == IF \E a \in Addresses : Wallet(a).public_key = pk
                    THEN AddressBody(CHOOSE a \in Addresses : Wallet(a).public_key = pk)
                    ELSE "h(" \o pk \o ")"

\* Wallet::get_address: the address is a function of the public key.
get_address(w) == CHOOSE a \in Addresses : AddressBody(a) = hash_pub_key(w.public_key)

\* Wallets::get_wallet on the store ws (the set of stored addresses).
get_wallet(ws, a) == IF a \in ws THEN Some(Wallet(a)) ELSE None

(***************************************************************************)
(* Outputs and transactions  (tx/mod.rs, transaction/mod.rs).              *)
(***************************************************************************)
\* TXOutput::new followed by lock.
TXOutputNew(value, addr) == [value |-> value, pub_key_hash |-> AddressBody(addr)]

is_locked_with_key(out, pkh) == out.pub_key_hash = pkh
can_be_unlocked_with(out, data) == out.pub_key_hash = data

\* Transaction::hash: the digest of the serialization with id cleared.
TxHash(tx) == <<"txhash", tx.vin, tx.vout>>

is_coinbase(tx) == /\ Len(tx.vin) = 1
                   /\ tx.vin[1].txid = <<>>
                   /\ tx.vin[1].vout = -1

new_coinbase(to, data) ==
  LET d == IF data = "" THEN "Reward to '" \o to \o "'" ELSE data
      tx == [id |-> <<>>,
             vin |-> << [txid |-> <<>>, vout |-> -1, signature |-> <<>>, pub_key |-> d] >>,
             vout |-> << TXOutputNew(COINBASE_REWARD, to) >>]
  IN [tx EXCEPT !.id = TxHash(tx)]

trim_copy(tx) ==
  [id |-> tx.id,
   vin |-> [i \in 1..Len(tx.vin) |->
              [txid |-> tx.vin[i].txid, vout |-> tx.vin[i].vout,
               signature |-> <<>>, pub_key |-> ""]],
   vout |-> [i \in 1..Len(tx.vout) |->
              [value |-> tx.vout[i].value, pub_key_hash |-> tx.vout[i].pub_key_hash]]]

\* ed25519::signature and ed25519::verify.
Ed25519Signature(msg, secret) == <<"sig", msg, secret>>
Ed25519Verify(msg, public, sig) ==
  \E a \in Addresses : Wallet(a).public_key = public /\ sig = <<"sig", msg, Wallet(a).secret_key>>

\* The message signed for input i: the id of the trimmed copy in which input i
\* carries the public-key hash of the output it references.
SignedCopyId(tx, prev_txs, i) ==
  LET c == trim_copy(tx)
      pkh == prev_txs[c.vin[i].txid].vout[c.vin[i].vout + 1].pub_key_hash
  IN TxHash([c EXCEPT !.vin[i].pub_key = pkh])

\* An index into a vout list that is in range.
InRange(tx, idx) == idx >= 0 /\ idx < Len(tx.vout)

\* sign as it would be if every input were signed over the transaction's own id
\* instead of the hash of the trimmed copy made for that input.
sign_own_id(tx, private_key, prev_txs) ==
  IF is_coinbase(tx) THEN [status |-> "ok", tx |-> tx]
  ELSE IF \E i \in 1..Len(tx.vin) : tx.vin[i].txid \notin DOMAIN prev_txs
  THEN [status |-> "panic", tx |-> tx]
  ELSE IF \E i \in 1..Len(tx.vin) : prev_txs[tx.vin[i].txid].id = <<>>
  THEN [status |-> "PrevTxIncorrect", tx |-> tx]
  ELSE IF \E i \in 1..Len(tx.vin) : ~InRange(prev_txs[tx.vin[i].txid], tx.vin[i].vout)
  THEN [status |-> "panic", tx |-> tx]
  ELSE [status |-> "ok",
        tx |-> [tx EXCEPT !.vin = [i \in 1..Len(tx.vin) |->
                   [tx.vin[i] EXCEPT !.signature =
                       Ed25519Signature(tx.id, private_key)]]]]

\* sign as it would be if the copy that is hashed for an input were not trimmed
\* and kept the signatures and public keys the transaction holds.
sign_untrimmed(tx, private_key, prev_txs) ==
  IF is_coinbase(tx) THEN [status |-> "ok", tx |-> tx]
  ELSE IF \E i \in 1..Len(tx.vin) : tx.vin[i].txid \notin DOMAIN prev_txs
  THEN [status |-> "panic", tx |-> tx]
  ELSE IF \E i \in 1..Len(tx.vin) : prev_txs[tx.vin[i].txid].id = <<>>
  THEN [status |-> "PrevTxIncorrect", tx |-> tx]
  ELSE IF \E i \in 1..Len(tx.vin) : ~InRange(prev_txs[tx.vin[i].txid], tx.vin[i].vout)
  THEN [status |-> "panic", tx |-> tx]
  ELSE [status |-> "ok",
        tx |-> [tx EXCEPT !.vin = [i \in 1..Len(tx.vin) |->
                   [tx.vin[i] EXCEPT !.signature =
                       Ed25519Signature(
                         TxHash([tx EXCEPT !.vin[i].pub_key =
                            prev_txs[tx.vin[i].txid].vout[tx.vin[i].vout + 1].pub_key_hash]),
                         private_key)]]]]

\* Transaction::sign.  Result: [status, tx].
sign(tx, private_key, prev_txs) ==
  IF is_coinbase(tx) THEN [status |-> "ok", tx |-> tx]
  ELSE IF \E i \in 1..Len(tx.vin) : tx.vin[i].txid \notin DOMAIN prev_txs
  THEN [status |-> "panic", tx |-> tx]
  ELSE IF \E i \in 1..Len(tx.vin) : prev_txs[tx.vin[i].txid].id = <<>>
  THEN [status |-> "PrevTxIncorrect", tx |-> tx]
  ELSE IF \E i \in 1..Len(tx.vin) : ~InRange(prev_txs[tx.vin[i].txid], tx.vin[i].vout)
  THEN [status |-> "panic", tx |-> tx]
  ELSE [status |-> "ok",
        tx |-> [tx EXCEPT !.vin = [i \in 1..Len(tx.vin) |->
                   [tx.vin[i] EXCEPT !.signature =
                       Ed25519Signature(SignedCopyId(tx, prev_txs, i), private_key)]]]]

\* Transaction::verify.  Result: [status, valid].
verify(tx, prev_txs) ==
  IF is_coinbase(tx) THEN [status |-> "ok", valid |-> TRUE]
  ELSE IF \E i \in 1..Len(tx.vin) : tx.vin[i].txid \notin DOMAIN prev_txs
  THEN [status |-> "panic", valid |-> FALSE]
  ELSE IF \E i \in 1..Len(tx.vin) : prev_txs[tx.vin[i].txid].id = <<>>
  THEN [status |-> "PrevTxIncorrect", valid |-> FALSE]
  ELSE IF \E i \in 1..Len(tx.vin) : ~InRange(prev_txs[tx.vin[i].txid], tx.vin[i].vout)
  THEN [status |-> "panic", valid |-> FALSE]
  ELSE [status |-> "ok",
        valid |-> \A i \in 1..Len(tx.vin) :
                     Ed25519Verify(SignedCopyId(tx, prev_txs, i),
                                   tx.vin[i].pub_key, tx.vin[i].signature)]

(***************************************************************************)
(* Blocks  (models/block.rs).                                              *)
(***************************************************************************)
\* get_timestamp: the wall clock in milliseconds when the clock reads t seconds.
get_timestamp(t) == t * 1000

\* MergeTX::merge: SHA-256 of the two children.
Merge(left, right) == <<"merge", left, right>>

\* Node i (from 0) of the complete binary Merkle tree over the leaves: the
\* leaves are the last Len(leaves) nodes, node i merges nodes 2i+1 and 2i+2.
RECURSIVE CbmtNode(_, _)
CbmtNode(leaves, i) ==
  IF i >= Len(leaves) - 1
  THEN leaves[i - (Len(leaves) - 1) + 1]
  ELSE Merge(CbmtNode(leaves, 2 * i + 1), CbmtNode(leaves, 2 * i + 2))

\* Block::hash_transactions: the Merkle root of the recomputed transaction hashes.
hash_transactions(block) ==
  LET leaves == [i \in 1..Len(block.transactions) |-> TxHash(block.transactions[i])]
  IN IF leaves = <<>> THEN <<>> ELSE CbmtNode(leaves, 0)

\* Block::prepare_hash_data and Block::generate_hash.
generate_hash(block) ==
  <<"blockhash", block.prev_block_hash, hash_transactions(block),
    block.timestamp, TARGET_HEXT, block.nonce>>

\* The number of leading '0' characters of a block hash in hex.  The digest is
\* abstract: one class in PowClasses has TARGET_HEXT leading zeros, the others fewer.
LeadingZeros(h) ==
  IF (h[4] \div 1000 + Len(h[2]) + h[6]) % PowClasses = 0
  THEN TARGET_HEXT
  ELSE (h[4] \div 1000 + h[6]) % TARGET_HEXT

\* Block::validate.
validate(block) == LeadingZeros(generate_hash(block)) >= TARGET_HEXT

\* run_proof_of_work as it would be if the nonce were not searched for.
run_proof_of_work_no_search(block) == [block EXCEPT !.hash = generate_hash(block)]

\* run_proof_of_work as it would be if the nonce were incremented before the first test.
RECURSIVE run_proof_of_work_skip_zero(_)
run_proof_of_work_skip_zero(block) ==
  IF block.nonce = 0 \/ ~validate(block)
  THEN run_proof_of_work_skip_zero([block EXCEPT !.nonce = block.nonce + 1])
  ELSE [block EXCEPT !.hash = generate_hash(block)]

\* run_proof_of_work as it would be if every failed attempt moved the timestamp
\* on by a second instead of the nonce by one.
RECURSIVE run_proof_of_work_restamp(_)
run_proof_of_work_restamp(block) ==
  IF ~validate(block)
  THEN run_proof_of_work_restamp([block EXCEPT !.timestamp = block.timestamp + 1000])
  ELSE [block EXCEPT !.hash = generate_hash(block)]

\* Block::run_proof_of_work.
RECURSIVE run_proof_of_work(_)
run_proof_of_work(block) ==
  IF ~validate(block)
  THEN run_proof_of_work([block EXCEPT !.nonce = block.nonce + 1])
  ELSE [block EXCEPT !.hash = generate_hash(block)]

\* Block::new, when the clock reads t.
BlockNew(data, prev_block_hash, height, t) ==
  run_proof_of_work([timestamp |-> get_timestamp(t),
                     transactions |-> data,
                     prev_block_hash |-> prev_block_hash,
                     hash |-> <<>>,
                     height |-> height,
                     nonce |-> 0])

new_genesis_block(coinbase, t) == BlockNew(<<coinbase>>, <<>>, 0, t)

(***************************************************************************)
(* The block log  (models/blockchain.rs).  The store data/blocks maps a     *)
(* block hash to the block record and the key LAST to the hash of the tip. *)
(***************************************************************************)
LAST_KEY == <<"LAST">>

\* The keys of the block records of a store.
BlockKeys(db) == (DOMAIN db) \ {LAST_KEY}

\* BlockchainIter: the blocks yielded from current_hash on.
RECURSIVE Iter(_, _)
Iter(db, current_hash) ==
  IF current_hash \in DOMAIN db
  THEN <<db[current_hash]>> \o Iter(db, db[current_hash].prev_block_hash)
  ELSE <<>>

\* The transactions met by a walk over the blocks, in the order met.
RECURSIVE TxsOf(_)
TxsOf(blks) == IF blks = <<>> THEN <<>> ELSE blks[1].transactions \o TxsOf(Tail(blks))

\* Blockchain::get_best_height.  Result: [status, height].
get_best_height(db) ==
  IF LAST_KEY \notin DOMAIN db THEN [status |-> "ok", height |-> -1]
  ELSE IF db[LAST_KEY] \notin DOMAIN db THEN [status |-> "panic", height |-> -1]
  ELSE [status |-> "ok", height |-> db[db[LAST_KEY]].height]

\* Blockchain::find_transaction.
find_transaction(db, current_hash, id) ==
  LET txs == TxsOf(Iter(db, current_hash))
      hits == {i \in 1..Len(txs) : txs[i].id = id}
  IN IF hits = {} THEN None
     ELSE Some(txs[CHOOSE i \in hits : \A j \in hits : i <= j])

\* Blockchain::get_prev_txs.  Result: [status, prev_txs].
get_prev_txs(db, current_hash, tx) ==
  LET ids == {tx.vin[i].txid : i \in 1..Len(tx.vin)}
  IN IF \E id \in ids : ~IsSome(find_transaction(db, current_hash, id))
     THEN [status |-> "TransactionNotFound", prev_txs |-> <<>>]
     ELSE [status |-> "ok",
           prev_txs |-> [id \in ids |-> Unwrap(find_transaction(db, current_hash, id))]]

\* sign_transaction as it would be if it did not look up the transactions the
\* inputs reference and left the transaction as it is.
sign_transaction_unchecked(db, current_hash, tx, private_key) ==
  [status |-> "ok", tx |-> tx]

\* Blockchain::sign_transaction.
sign_transaction(db, current_hash, tx, private_key) ==
  LET p == get_prev_txs(db, current_hash, tx)
  IN IF p.status # "ok" THEN [status |-> p.status, tx |-> tx]
     ELSE sign(tx, private_key, p.prev_txs)

\* Blockchain::verify_transaction.
verify_transaction(db, current_hash, tx) ==
  LET p == get_prev_txs(db, current_hash, tx)
  IN IF p.status # "ok" THEN [status |-> p.status, valid |-> FALSE]
     ELSE verify(tx, p.prev_txs)

\* Does the list of spent indices hold idx?
Contains(ids, idx) == \E k \in 1..Len(ids) : ids[k] = idx

\* The outputs loop of find_utxo for one transaction: push onto utxos[tx.id]
\* every output whose index is not recorded as spent.
RECURSIVE FindUtxoOutputs(_, _, _, _)
FindUtxoOutputs(tx, index, spent_txos, utxos) ==
  IF index >= Len(tx.vout) THEN utxos
  ELSE IF tx.id \in DOMAIN spent_txos /\ Contains(spent_txos[tx.id], index)
  THEN FindUtxoOutputs(tx, index + 1, spent_txos, utxos)
  ELSE FindUtxoOutputs(tx, index + 1, spent_txos,
         IF tx.id \in DOMAIN utxos
         THEN [utxos EXCEPT ![tx.id] = Append(@, tx.vout[index + 1])]
         ELSE DbInsert(utxos, tx.id, <<tx.vout[index + 1]>>))

\* The inputs loop of find_utxo for one transaction: record each referenced output as spent.
RECURSIVE FindUtxoInputs(_, _, _)
FindUtxoInputs(tx, i, spent_txos) ==
  IF i > Len(tx.vin) THEN spent_txos
  ELSE FindUtxoInputs(tx, i + 1,
         IF tx.vin[i].txid \in DOMAIN spent_txos
         THEN [spent_txos EXCEPT ![tx.vin[i].txid] = Append(@, tx.vin[i].vout)]
         ELSE DbInsert(spent_txos, tx.vin[i].txid, <<tx.vin[i].vout>>))

RECURSIVE FindUtxoScan(_, _, _)
FindUtxoScan(txs, spent_txos, utxos) ==
  IF txs = <<>> THEN utxos
  ELSE LET tx == txs[1]
           u == FindUtxoOutputs(tx, 0, spent_txos, utxos)
           s == IF ~is_coinbase(tx) THEN FindUtxoInputs(tx, 1, spent_txos) ELSE spent_txos
       IN FindUtxoScan(Tail(txs), s, u)

\* Blockchain::find_utxo: a map from txid to the list of its unspent outputs.
find_utxo(db, current_hash) == FindUtxoScan(TxsOf(Iter(db, current_hash)), EmptyDb, EmptyDb)

\* Blockchain::get_block_hashes.
get_block_hashes(db, current_hash) ==
  LET blks == Iter(db, current_hash) IN [i \in 1..Len(blks) |-> blks[i].hash]

(***************************************************************************)
(* The UTXO index  (utxoset/mod.rs).  The store data/utxos maps a txid to  *)
(* the list of outputs recorded under it.                                  *)
(***************************************************************************)
\* UTXOSet::reindex, after the wipe: every (txid, outs) of find_utxo is inserted.
RECURSIVE ReindexInsert(_, _, _)
ReindexInsert(db, found, keys) ==
  IF keys = {} THEN db
  ELSE LET k == CHOOSE k \in keys : TRUE
       IN ReindexInsert(DbInsert(db, k, found[k]), found, keys \ {k})

reindex(blocks_db, current_hash) ==
  LET found == find_utxo(blocks_db, current_hash)
  IN ReindexInsert(EmptyDb, found, DOMAIN found)

\* The record left when position vout of outs is dropped (update, lines 45-49).
RECURSIVE DropIndex(_, _, _)
DropIndex(outs, out_idx, vout) ==
  IF out_idx >= Len(outs) THEN <<>>
  ELSE (IF out_idx # vout THEN <<outs[out_idx + 1]>> ELSE <<>>)
       \o DropIndex(outs, out_idx + 1, vout)

\* The inputs loop of update as it would be if a record left without outputs
\* were written back instead of removed.
RECURSIVE UpdateInputs_keep_empty(_, _, _)
UpdateInputs_keep_empty(db, tx, i) ==
  IF i > Len(tx.vin) THEN [status |-> "ok", db |-> db]
  ELSE LET vin == tx.vin[i]
       IN IF vin.txid \notin DOMAIN db THEN [status |-> "panic", db |-> db]
          ELSE UpdateInputs_keep_empty(
                 DbInsert(db, vin.txid, DropIndex(db[vin.txid], 0, vin.vout)), tx, i + 1)

\* The inputs loop of update for one transaction.  Result: [status, db].
RECURSIVE UpdateInputs(_, _, _)
UpdateInputs(db, tx, i) ==
  IF i > Len(tx.vin) THEN [status |-> "ok", db |-> db]
  ELSE LET vin == tx.vin[i]
       IN IF vin.txid \notin DOMAIN db THEN [status |-> "panic", db |-> db]
          ELSE LET update_outputs == DropIndex(db[vin.txid], 0, vin.vout)
               IN UpdateInputs(IF update_outputs = <<>>
                               THEN DbRemove(db, vin.txid)
                               ELSE DbInsert(db, vin.txid, update_outputs),
                               tx, i + 1)

\* The transactions loop of update.  Result: [status, db].
RECURSIVE UpdateTxs(_, _)
UpdateTxs(db, txs) ==
  IF txs = <<>> THEN [status |-> "ok", db |-> db]
  ELSE LET tx == txs[1]
           r == IF ~is_coinbase(tx) THEN UpdateInputs(db, tx, 1)
                ELSE [status |-> "ok", db |-> db]
       IN IF r.status # "ok" THEN r
          ELSE UpdateTxs(DbInsert(r.db, tx.id, tx.vout), Tail(txs))

\* UTXOSet::update.  Result: [status, db]; on a panic db holds the writes done so far.
update(db, block) == UpdateTxs(db, block.transactions)

\* The outputs loop of find_spendable_outputs for one record.
RECURSIVE SpendableInRecord(_, _, _, _, _, _)
SpendableInRecord(txid, outs, out_idx, address, amount, acc) ==
  IF out_idx >= Len(outs) THEN acc
  ELSE IF is_locked_with_key(outs[out_idx + 1], address) /\ acc.accumulated < amount
  THEN SpendableInRecord(txid, outs, out_idx + 1, address, amount,
         [accumulated |-> acc.accumulated + outs[out_idx + 1].value,
          unspent_outputs |->
            IF txid \in DOMAIN acc.unspent_outputs
            THEN [acc.unspent_outputs EXCEPT ![txid] = Append(@, out_idx)]
            ELSE DbInsert(acc.unspent_outputs, txid, <<out_idx>>)])
  ELSE SpendableInRecord(txid, outs, out_idx + 1, address, amount, acc)

RECURSIVE SpendableScan(_, _, _, _, _)
SpendableScan(db, order, address, amount, acc) ==
  IF order = <<>> THEN acc
  ELSE SpendableScan(db, Tail(order), address, amount,
         SpendableInRecord(order[1], db[order[1]], 0, address, amount, acc))

\* find_spendable_outputs as it would be if the scan did not stop adding once
\* the amount is covered.
find_spendable_outputs_no_stop(db, address, amount, order) ==
  SpendableScan(db, order, address, 2147483647,
                [accumulated |-> 0, unspent_outputs |-> EmptyDb])

\* UTXOSet::find_spendable_outputs, when the store yields its records in the
\* given order.  Result: [accumulated, unspent_outputs].
find_spendable_outputs(db, address, amount, order) ==
  SpendableScan(db, order, address, amount, [accumulated |-> 0, unspent_outputs |-> EmptyDb])

\* The records that hold an output locked to address.  A record without one
\* changes nothing in the scan, wherever it stands in the order.
LockedRecords(db, address) ==
  {k \in DOMAIN db : \E i \in 1..Len(db[k]) : is_locked_with_key(db[k][i], address)}

\* The values of the outputs of the store that pub_key_hash unlocks.
RECURSIVE FindUtxosValues(_, _, _)
FindUtxosValues(db, keys, pub_key_hash) ==
  IF keys = {} THEN <<>>
  ELSE LET k == CHOOSE k \in keys : TRUE
           locked == SelectSeq(db[k], LAMBDA out : can_be_unlocked_with(out, pub_key_hash))
       IN [i \in 1..Len(locked) |-> locked[i].value]
          \o FindUtxosValues(db, keys \ {k}, pub_key_hash)

\* UTXOSet::find_utxos, as the list of the values found.
find_utxos(db, pub_key_hash) == FindUtxosValues(db, DOMAIN db, pub_key_hash)

\* The getbalance command: the sum over find_utxos.
getbalance(db, address) == SumSeq(find_utxos(db, AddressBody(address)))

\* UTXOSet::count_transactions.
count_transactions(db) == Cardinality(DOMAIN db)

(***************************************************************************)
(* The rate-limit contract  (contracts/mod.rs).                            *)
(***************************************************************************)
RateLimitContractNew(minimum_interval_seconds) ==
  [last_transaction_times |-> EmptyDb, minimum_interval_seconds |-> minimum_interval_seconds]

\* u64 subtraction: with overflow checks a negative difference panics,
\* without them it wraps to a - b + 2^64.  The result is the number
\* value + wraps * 2^64, kept in two parts because 2^64 is beyond the
\* integers of the model checker.
SubU64(a, b, overflow_checks) ==
  IF a >= b THEN [status |-> "ok", value |-> a - b, wraps |-> 0]
  ELSE IF overflow_checks THEN [status |-> "panic", value |-> 0, wraps |-> 0]
  ELSE [status |-> "ok", value |-> a - b, wraps |-> 1]

\* d < n for a difference d of two clock readings and an interval n: a wrapped
\* difference is at least 2^64 less the larger reading, above every interval.
LessU64(d, n) == d.wraps = 0 /\ d.value < n

\* execute as it would be if one last time were kept for all addresses.
execute_shared_time(contract, wallet_address, current_time, overflow_checks) ==
  LET times == contract.last_transaction_times
      stored == times # EmptyDb
      last == IF stored THEN times[CHOOSE k \in DOMAIN times :
                                     \A j \in DOMAIN times : times[j] <= times[k]]
              ELSE 0
  IN IF stored /\ current_time - last < contract.minimum_interval_seconds
     THEN [status |-> "RateLimited", contract |-> contract,
           wait |-> contract.minimum_interval_seconds - (current_time - last)]
     ELSE [status |-> "ok",
           contract |-> [contract EXCEPT !.last_transaction_times =
                            DbInsert(times, wallet_address, current_time)],
           wait |-> 0]

\* execute as it would be if a rejected call stored its time as well.
execute_store_on_reject(contract, wallet_address, current_time, overflow_checks) ==
  LET times == contract.last_transaction_times
      stored == wallet_address \in DOMAIN times
      stamped == [contract EXCEPT !.last_transaction_times =
                     DbInsert(times, wallet_address, current_time)]
  IN IF stored /\ current_time - times[wallet_address] < contract.minimum_interval_seconds
     THEN [status |-> "RateLimited", contract |-> stamped,
           wait |-> contract.minimum_interval_seconds - (current_time - times[wallet_address])]
     ELSE [status |-> "ok", contract |-> stamped, wait |-> 0]

\* RateLimitContract::execute at clock reading current_time.
\* Result: [status, contract, wait].
execute(contract, wallet_address, current_time, overflow_checks) ==
  LET times == contract.last_transaction_times
      stored == wallet_address \in DOMAIN times
      d == IF stored THEN SubU64(current_time, times[wallet_address], overflow_checks)
           ELSE [status |-> "ok", value |-> 0, wraps |-> 0]
  IN IF stored /\ d.status = "panic"
     THEN [status |-> "panic", contract |-> contract, wait |-> 0]
     ELSE IF stored /\ LessU64(d, contract.minimum_interval_seconds)
     THEN [status |-> "RateLimited", contract |-> contract,
           wait |-> contract.minimum_interval_seconds - d.value]
     ELSE [status |-> "ok",
           contract |-> [contract EXCEPT !.last_transaction_times =
                            DbInsert(times, wallet_address, current_time)],
           wait |-> 0]

(***************************************************************************)
(* Transaction::new_utxo  (transaction/mod.rs).                            *)
(***************************************************************************)
\* The inputs built from the selection when the map of selected outputs is
\* walked in map_order (lines 135-145).
RECURSIVE BuildInputs(_, _, _)
BuildInputs(unspent_outputs, map_order, public_key) ==
  IF map_order = <<>> THEN <<>>
  ELSE LET txid == map_order[1]
           outs == unspent_outputs[txid]
       IN [k \in 1..Len(outs) |->
             [txid |-> txid, vout |-> outs[k], signature |-> <<>>, pub_key |-> public_key]]
          \o BuildInputs(unspent_outputs, Tail(map_order), public_key)

\* new_utxo as it would be if the recipient's wallet were not looked up.
new_utxo_no_dest_check(ws, utxos_db, blocks_db, current_hash, to, from, amount, order, map_order) ==
  LET none == [id |-> <<>>, vin |-> <<>>, vout |-> <<>>]
  IN IF ~IsSome(get_wallet(ws, from))
     THEN [status |-> "SourceWalletNotFound", detail |-> 0, tx |-> none]
     ELSE LET wallet == Unwrap(get_wallet(ws, from))
              pub_key_hash == hash_pub_key(wallet.public_key)
              acc_v == find_spendable_outputs(utxos_db, pub_key_hash, amount, order)
          IN IF acc_v.accumulated < amount
             THEN [status |-> "InsufficientFunds", detail |-> acc_v.accumulated, tx |-> none]
             ELSE LET vin == BuildInputs(acc_v.unspent_outputs, map_order, wallet.public_key)
                      vout == <<TXOutputNew(amount, to)>>
                              \o (IF acc_v.accumulated > amount
                                  THEN <<TXOutputNew(acc_v.accumulated - amount, from)>>
                                  ELSE <<>>)
                      tx0 == [id |-> <<>>, vin |-> vin, vout |-> vout]
                      tx == [tx0 EXCEPT !.id = TxHash(tx0)]
                      signed == sign_transaction(blocks_db, current_hash, tx, wallet.secret_key)
                  IN [status |-> signed.status, detail |-> 0, tx |-> signed.tx]

\* Transaction::new_utxo(to, from, amount, bc), when the index yields its records
\* in the given order and the selection map is walked in map_order.
\* Result: [status, detail, tx].
new_utxo(ws, utxos_db, blocks_db, current_hash, to, from, amount, order, map_order) ==
  LET none == [id |-> <<>>, vin |-> <<>>, vout |-> <<>>]
  IN IF ~IsSome(get_wallet(ws, from))
     THEN [status |-> "SourceWalletNotFound", detail |-> 0, tx |-> none]
     ELSE IF ~IsSome(get_wallet(ws, to))
     THEN [status |-> "DestinationWalletNotFound", detail |-> 0, tx |-> none]
     ELSE LET wallet == Unwrap(get_wallet(ws, from))
              pub_key_hash == hash_pub_key(wallet.public_key)
              acc_v == find_spendable_outputs(utxos_db, pub_key_hash, amount, order)
          IN IF acc_v.accumulated < amount
             THEN [status |-> "InsufficientFunds", detail |-> acc_v.accumulated, tx |-> none]
             ELSE LET vin == BuildInputs(acc_v.unspent_outputs, map_order, wallet.public_key)
                      vout == <<TXOutputNew(amount, to)>>
                              \o (IF acc_v.accumulated > amount
                                  THEN <<TXOutputNew(acc_v.accumulated - amount, from)>>
                                  ELSE <<>>)
                      tx0 == [id |-> <<>>, vin |-> vin, vout |-> vout]
                      tx == [tx0 EXCEPT !.id = TxHash(tx0)]
                      signed == sign_transaction(blocks_db, current_hash, tx, wallet.secret_key)
                  IN [status |-> signed.status, detail |-> 0, tx |-> signed.tx]

\* Every result new_utxo can give: over the orders in which the index can yield
\* the records that matter (one order for each selection they lead to), and the
\* orders in which the selection map can be walked.
new_utxo_results(ws, utxos_db, blocks_db, current_hash, to, from, amount) ==
  LET orders == Perms(LockedRecords(utxos_db, AddressBody(from)))
      sel(order) == find_spendable_outputs(utxos_db, AddressBody(from), amount, order)
      sels == {sel(order) : order \in orders}
      reps == {CHOOSE order \in orders : sel(order) = sl : sl \in sels}
  IN UNION {
       {new_utxo(ws, utxos_db, blocks_db, current_hash, to, from, amount, order, map_order) :
          map_order \in Perms(DOMAIN sel(order).unspent_outputs)}
       : order \in reps}

(***************************************************************************)
(* The writes of create_blockchain and add_block, in program order.        *)
(***************************************************************************)
\* Blockchain::create_blockchain after the wipe, at clock reading t.
\* Result: [block, writes].
create_blockchain(address, t) ==
  LET cbtx == new_coinbase(address, GENESIS_COINBASE_DATA)
      genesis == new_genesis_block(cbtx, t)
  IN [block |-> genesis,
      writes |-> << [key |-> genesis.hash, value |-> genesis],
                    [key |-> LAST_KEY, value |-> genesis.hash] >>]

\* add_block as it would be if the new block did not name the tip as its predecessor.
add_block_no_prev(db, transactions, t) ==
  LET h == get_best_height(db)
  IN IF LAST_KEY \notin DOMAIN db \/ h.status # "ok"
     THEN [status |-> "panic", block |-> <<>>, writes |-> <<>>]
     ELSE LET new_block == BlockNew(transactions, <<>>, h.height, t)
          IN [status |-> "ok",
              block |-> new_block,
              writes |-> << [key |-> new_block.hash, value |-> new_block],
                            [key |-> LAST_KEY, value |-> new_block.hash] >>]

\* add_block as it would be if LAST were written before the block record.
add_block_last_first(db, transactions, t) ==
  LET h == get_best_height(db)
  IN IF LAST_KEY \notin DOMAIN db \/ h.status # "ok"
     THEN [status |-> "panic", block |-> <<>>, writes |-> <<>>]
     ELSE LET new_block == BlockNew(transactions, db[LAST_KEY], h.height, t)
          IN [status |-> "ok",
              block |-> new_block,
              writes |-> << [key |-> LAST_KEY, value |-> new_block.hash],
                            [key |-> new_block.hash, value |-> new_block] >>]

\* add_block as it would be if the record were stored under the predecessor's key.
add_block_prev_key(db, transactions, t) ==
  LET h == get_best_height(db)
  IN IF LAST_KEY \notin DOMAIN db \/ h.status # "ok"
     THEN [status |-> "panic", block |-> <<>>, writes |-> <<>>]
     ELSE LET new_block == BlockNew(transactions, db[LAST_KEY], h.height, t)
          IN [status |-> "ok",
              block |-> new_block,
              writes |-> << [key |-> new_block.prev_block_hash, value |-> new_block],
                            [key |-> LAST_KEY, value |-> new_block.hash] >>]

\* add_block as it would be if the new block were given the height after the tip's.
add_block_next_height(db, transactions, t) ==
  LET h == get_best_height(db)
  IN IF LAST_KEY \notin DOMAIN db \/ h.status # "ok"
     THEN [status |-> "panic", block |-> <<>>, writes |-> <<>>]
     ELSE LET new_block == BlockNew(transactions, db[LAST_KEY], h.height + 1, t)
          IN [status |-> "ok",
              block |-> new_block,
              writes |-> << [key |-> new_block.hash, value |-> new_block],
                            [key |-> LAST_KEY, value |-> new_block.hash] >>]

\* Blockchain::add_block at clock reading t.  Result: [status, block, writes].
add_block(db, transactions, t) ==
  LET h == get_best_height(db)
  IN IF LAST_KEY \notin DOMAIN db \/ h.status # "ok"
     THEN [status |-> "panic", block |-> <<>>, writes |-> <<>>]
     ELSE LET new_block == BlockNew(transactions, db[LAST_KEY], h.height, t)
          IN [status |-> "ok",
              block |-> new_block,
              writes |-> << [key |-> new_block.hash, value |-> new_block],
                            [key |-> LAST_KEY, value |-> new_block.hash] >>]

(***************************************************************************)
(* The send command up to its first write  (cli/mod.rs, lines 90-111).     *)
(***************************************************************************)
\* The send command as it would be if the transfer were put in front of the reward.
SendWith_transfer_first(c, ws, utxos_db, blocks_db, from, to, amount, t) ==
  LET fail(st, d, k) == [status |-> st, detail |-> d, contract |-> k,
                         current_hash |-> <<>>, block |-> <<>>, writes |-> <<>>]
      guards == {execute(c, from, t, oc) : oc \in BOOLEAN}
  IN UNION {
       IF g.status # "ok" THEN {fail(g.status, g.wait, g.contract)}
       ELSE IF LAST_KEY \notin DOMAIN blocks_db THEN {fail("panic", 0, g.contract)}
       ELSE LET current_hash == blocks_db[LAST_KEY]
            IN { IF r.status # "ok" THEN fail(r.status, r.detail, g.contract)
                 ELSE LET cbtx == new_coinbase(from, "Reward!")
                          a == add_block(blocks_db, <<r.tx, cbtx>>, t)
                      IN IF a.status # "ok" THEN fail(a.status, 0, g.contract)
                         ELSE [status |-> "ok", detail |-> 0, contract |-> g.contract,
                               current_hash |-> current_hash,
                               block |-> a.block, writes |-> a.writes]
                 : r \in new_utxo_results(ws, utxos_db, blocks_db, current_hash, from, to, amount) }
       : g \in guards}

\* The send command as it would be if the guard recorded the time of a send only
\* once its transfer was built.
SendWith_guard_after_transfer(c, ws, utxos_db, blocks_db, from, to, amount, t) ==
  LET fail(st, d, k) == [status |-> st, detail |-> d, contract |-> k,
                         current_hash |-> <<>>, block |-> <<>>, writes |-> <<>>]
      guards == {execute(c, from, t, oc) : oc \in BOOLEAN}
  IN UNION {
       IF g.status # "ok" THEN {fail(g.status, g.wait, g.contract)}
       ELSE IF LAST_KEY \notin DOMAIN blocks_db THEN {fail("panic", 0, c)}
       ELSE LET current_hash == blocks_db[LAST_KEY]
            IN { IF r.status # "ok" THEN fail(r.status, r.detail, c)
                 ELSE LET cbtx == new_coinbase(from, "Reward!")
                          a == add_block(blocks_db, <<cbtx, r.tx>>, t)
                      IN IF a.status # "ok" THEN fail(a.status, 0, g.contract)
                         ELSE [status |-> "ok", detail |-> 0, contract |-> g.contract,
                               current_hash |-> current_hash,
                               block |-> a.block, writes |-> a.writes]
                 : r \in new_utxo_results(ws, utxos_db, blocks_db, current_hash, from, to, amount) }
       : g \in guards}

\* The send command as it would be if the result of the guard were not looked at.
SendWith_guard_ignored(c, ws, utxos_db, blocks_db, from, to, amount, t) ==
  LET fail(st, d, k) == [status |-> st, detail |-> d, contract |-> k,
                         current_hash |-> <<>>, block |-> <<>>, writes |-> <<>>]
      guards == {execute(c, from, t, oc) : oc \in BOOLEAN}
  IN UNION {
       IF FALSE THEN {fail(g.status, g.wait, g.contract)}
       ELSE IF LAST_KEY \notin DOMAIN blocks_db THEN {fail("panic", 0, g.contract)}
       ELSE LET current_hash == blocks_db[LAST_KEY]
            IN { IF r.status # "ok" THEN fail(r.status, r.detail, g.contract)
                 ELSE LET cbtx == new_coinbase(from, "Reward!")
                          a == add_block(blocks_db, <<cbtx, r.tx>>, t)
                      IN IF a.status # "ok" THEN fail(a.status, 0, g.contract)
                         ELSE [status |-> "ok", detail |-> 0, contract |-> g.contract,
                               current_hash |-> current_hash,
                               block |-> a.block, writes |-> a.writes]
                 : r \in new_utxo_results(ws, utxos_db, blocks_db, current_hash, from, to, amount) }
       : g \in guards}

\* The send command in a process whose RATE_LIMIT_CONTRACT is c.
\* Result: the set of [status, detail, contract, current_hash, block, writes].
SendWith(c, ws, utxos_db, blocks_db, from, to, amount, t) ==
  LET fail(st, d, k) == [status |-> st, detail |-> d, contract |-> k,
                         current_hash |-> <<>>, block |-> <<>>, writes |-> <<>>]
      guards == {execute(c, from, t, oc) : oc \in BOOLEAN}
  IN UNION {
       IF g.status # "ok" THEN {fail(g.status, g.wait, g.contract)}
       ELSE IF LAST_KEY \notin DOMAIN blocks_db THEN {fail("panic", 0, g.contract)}
       ELSE LET current_hash == blocks_db[LAST_KEY]
            IN { IF r.status # "ok" THEN fail(r.status, r.detail, g.contract)
                 ELSE LET cbtx == new_coinbase(from, "Reward!")
                          a == add_block(blocks_db, <<cbtx, r.tx>>, t)
                      IN IF a.status # "ok" THEN fail(a.status, 0, g.contract)
                         ELSE [status |-> "ok", detail |-> 0, contract |-> g.contract,
                               current_hash |-> current_hash,
                               block |-> a.block, writes |-> a.writes]
                 : r \in new_utxo_results(ws, utxos_db, blocks_db, current_hash, from, to, amount) }
       : g \in guards}

\* The send command in a new process: the contract is created on first use.
SendOutcomes(ws, utxos_db, blocks_db, from, to, amount, t) ==
  SendWith(RateLimitContractNew(RATE_LIMIT_INTERVAL), ws, utxos_db, blocks_db, from, to, amount, t)

(***************************************************************************)
(* The state.                                                              *)
(***************************************************************************)
VARIABLES
  wallets,     \* data/wallets: the addresses whose key pairs are stored
  blocks_db,   \* data/blocks: block hash -> block record, and LAST -> tip hash
  utxos,       \* data/utxos: txid -> list of outputs
  now,         \* the wall clock, in seconds
  contract,    \* RATE_LIMIT_CONTRACT of the process of the last command run
  pc,          \* the position of the running command; "idle" between commands
  proc,        \* the running command's locals: current_hash, block, pending writes
  result       \* the outcome of the last command: [status, detail]

vars == <<wallets, blocks_db, utxos, now, contract, pc, proc, result>>

NoProc == [current_hash |-> <<>>, block |-> <<>>, writes |-> <<>>]
Outcome(st, d) == [status |-> st, detail |-> d]

Init ==
  /\ wallets = {}
  /\ blocks_db = EmptyDb
  /\ utxos = EmptyDb
  /\ now = 0
  /\ contract = RateLimitContractNew(RATE_LIMIT_INTERVAL)
  /\ pc = "idle"
  /\ proc = NoProc
  /\ result = Outcome("none", 0)

\* The store after the writes ws, applied in order.
RECURSIVE ApplyWrites(_, _)
ApplyWrites(db, ws) ==
  IF ws = <<>> THEN db
  ELSE ApplyWrites(DbInsert(db, ws[1].key, ws[1].value), Tail(ws))

(***************************************************************************)
(* The commands, each one run of the command-line entry point              *)
(* (cli/mod.rs, Cli::run).                                                 *)
(***************************************************************************)
\* createwallet: Wallets::new, create_wallet, save_all.
CreateWallet(a) ==
  /\ pc = "idle"
  /\ a \notin wallets
  /\ wallets' = wallets \cup {get_address(Wallet(a))}
  /\ result' = Outcome("ok", 0)
  /\ contract' = RateLimitContractNew(RATE_LIMIT_INTERVAL)
  /\ UNCHANGED <<blocks_db, utxos, now, pc, proc>>

\* create as it would be if the block store of the previous chain were kept.
Create_keep_blocks(address) ==
  /\ pc = "idle"
  /\ LET c == create_blockchain(address, now)
         db == ApplyWrites(blocks_db, c.writes)
     IN /\ blocks_db' = db
        /\ utxos' = reindex(db, c.block.hash)
  /\ result' = Outcome("ok", 0)
  /\ contract' = RateLimitContractNew(RATE_LIMIT_INTERVAL)
  /\ UNCHANGED <<wallets, now, pc, proc>>

\* create <ADDRESS>: create_blockchain, then reindex.
Create(address) ==
  /\ pc = "idle"
  /\ LET c == create_blockchain(address, now)
         db == ApplyWrites(EmptyDb, c.writes)
     IN /\ blocks_db' = db
        /\ utxos' = reindex(db, c.block.hash)
  /\ result' = Outcome("ok", 0)
  /\ contract' = RateLimitContractNew(RATE_LIMIT_INTERVAL)
  /\ UNCHANGED <<wallets, now, pc, proc>>

\* reindex: Blockchain::new (which needs the key LAST), reindex, count_transactions.
Reindex ==
  /\ pc = "idle"
  /\ IF LAST_KEY \in DOMAIN blocks_db
     THEN /\ utxos' = reindex(blocks_db, blocks_db[LAST_KEY])
          /\ result' = Outcome("ok", count_transactions(utxos'))
     ELSE /\ utxos' = utxos
          /\ result' = Outcome("panic", 0)
  /\ contract' = RateLimitContractNew(RATE_LIMIT_INTERVAL)
  /\ UNCHANGED <<wallets, blocks_db, now, pc, proc>>

\* send <FROM> <TO> <AMOUNT>: the guard, new_utxo, new_coinbase, add_block, update.
\* The command is run while the log holds fewer than max_blocks block records.
SendCmd(from, to, amount, max_blocks) ==
  /\ pc = "idle"
  /\ Cardinality(BlockKeys(blocks_db)) < max_blocks
  /\ \E o \in SendOutcomes(wallets, utxos, blocks_db, from, to, amount, now) :
       /\ contract' = o.contract
       /\ IF o.status = "ok"
          THEN /\ blocks_db' = ApplyWrites(blocks_db, o.writes)
               /\ LET u == update(utxos, o.block)
                  IN /\ utxos' = u.db
                     /\ result' = Outcome(u.status, 0)
          ELSE /\ blocks_db' = blocks_db
               /\ utxos' = utxos
               /\ result' = Outcome(o.status, o.detail)
  /\ UNCHANGED <<wallets, now, pc, proc>>

Send(from, to, amount) == SendCmd(from, to, amount, MaxBlocks)

\* Time passes between two commands.
Tick ==
  /\ pc = "idle"
  /\ \E g \in Gaps : /\ now + g <= MaxClock
                     /\ now' = now + g
  /\ UNCHANGED <<wallets, blocks_db, utxos, contract, pc, proc, result>>

Next ==
  \/ \E a \in Addresses : CreateWallet(a)
  \/ \E a \in Addresses : Create(a)
  \/ Reindex
  \/ \E from, to \in Addresses, amount \in Amounts : Send(from, to, amount)
  \/ Tick

Spec == Init /\ [][Next]_vars

\* The same commands on a log let grow one block further.
DeepSend(from, to, amount) == SendCmd(from, to, amount, DeepBlocks)

NextDeep ==
  \/ \E a \in Addresses : CreateWallet(a)
  \/ \E a \in Addresses : Create(a)
  \/ Reindex
  \/ \E from, to \in Addresses, amount \in Amounts : DeepSend(from, to, amount)
  \/ Tick

SpecDeep == Init /\ [][NextDeep]_vars

(***************************************************************************)
(* The same commands, one store write at a time: the states a stopped      *)
(* process can leave behind.                                               *)
(***************************************************************************)
\* create <ADDRESS>: the block store is wiped and the genesis block is mined.
CreateStart(address) ==
  /\ pc = "idle"
  /\ blocks_db' = EmptyDb
  /\ LET c == create_blockchain(address, now)
     IN proc' = [current_hash |-> <<>>, block |-> c.block, writes |-> c.writes]
  /\ pc' = "create_write"
  /\ result' = Outcome("running", 0)
  /\ contract' = RateLimitContractNew(RATE_LIMIT_INTERVAL)
  /\ UNCHANGED <<wallets, utxos, now>>

\* The next store write of create_blockchain (lines 53-63); after the last
\* one the handle's current_hash is the genesis hash and reindex follows.
CreateWrite ==
  /\ pc = "create_write"
  /\ blocks_db' = DbInsert(blocks_db, proc.writes[1].key, proc.writes[1].value)
  /\ IF Len(proc.writes) > 1
     THEN /\ proc' = [proc EXCEPT !.writes = Tail(@)]
          /\ pc' = pc
     ELSE /\ proc' = [proc EXCEPT !.writes = <<>>, !.current_hash = proc.block.hash]
          /\ pc' = "reindex_wipe"
  /\ UNCHANGED <<wallets, utxos, now, contract, result>>

\* reindex: Blockchain::new needs the key LAST.
ReindexStart ==
  /\ pc = "idle"
  /\ IF LAST_KEY \in DOMAIN blocks_db
     THEN /\ proc' = [NoProc EXCEPT !.current_hash = blocks_db[LAST_KEY]]
          /\ pc' = "reindex_wipe"
          /\ result' = Outcome("running", 0)
     ELSE /\ proc' = NoProc
          /\ pc' = "idle"
          /\ result' = Outcome("panic", 0)
  /\ contract' = RateLimitContractNew(RATE_LIMIT_INTERVAL)
  /\ UNCHANGED <<wallets, blocks_db, utxos, now>>

\* UTXOSet::reindex: data/utxos is removed ...
ReindexWipe ==
  /\ pc = "reindex_wipe"
  /\ utxos' = EmptyDb
  /\ pc' = "reindex_write"
  /\ UNCHANGED <<wallets, blocks_db, now, contract, proc, result>>

\* ... and the result of find_utxo is written.
ReindexWrite ==
  /\ pc = "reindex_write"
  /\ utxos' = reindex(blocks_db, proc.current_hash)
  /\ pc' = "idle"
  /\ proc' = NoProc
  /\ result' = Outcome("ok", count_transactions(utxos'))
  /\ UNCHANGED <<wallets, blocks_db, now, contract>>

\* send <FROM> <TO> <AMOUNT>, up to the first store write of add_block.
SendStart(from, to, amount) ==
  /\ pc = "idle"
  /\ Cardinality(BlockKeys(blocks_db)) < MaxStepBlocks
  /\ \E o \in SendOutcomes(wallets, utxos, blocks_db, from, to, amount, now) :
       /\ contract' = o.contract
       /\ IF o.status = "ok"
          THEN /\ proc' = [current_hash |-> o.current_hash, block |-> o.block,
                           writes |-> o.writes]
               /\ pc' = "add_block_write"
               /\ result' = Outcome("running", 0)
          ELSE /\ proc' = NoProc
               /\ pc' = "idle"
               /\ result' = Outcome(o.status, o.detail)
  /\ UNCHANGED <<wallets, blocks_db, utxos, now>>

\* The store writes of add_block as they would be if the handle's current_hash
\* were left at the old tip.
AddBlockWrite_stale_handle ==
  /\ pc = "add_block_write"
  /\ blocks_db' = DbInsert(blocks_db, proc.writes[1].key, proc.writes[1].value)
  /\ IF Len(proc.writes) > 1
     THEN /\ proc' = [proc EXCEPT !.writes = Tail(@)]
          /\ pc' = pc
     ELSE /\ proc' = [proc EXCEPT !.writes = <<>>]
          /\ pc' = "update"
  /\ UNCHANGED <<wallets, utxos, now, contract, result>>

\* The next store write of add_block (lines 78-85); after the last one the
\* handle's current_hash is the new block's hash and update follows.
AddBlockWrite ==
  /\ pc = "add_block_write"
  /\ blocks_db' = DbInsert(blocks_db, proc.writes[1].key, proc.writes[1].value)
  /\ IF Len(proc.writes) > 1
     THEN /\ proc' = [proc EXCEPT !.writes = Tail(@)]
          /\ pc' = pc
     ELSE /\ proc' = [proc EXCEPT !.writes = <<>>, !.current_hash = proc.block.hash]
          /\ pc' = "update"
  /\ UNCHANGED <<wallets, utxos, now, contract, result>>

\* utxo_set.update(&new_block), the last step of send.
SendUpdate ==
  /\ pc = "update"
  /\ LET u == update(utxos, proc.block)
     IN /\ utxos' = u.db
        /\ result' = Outcome(u.status, 0)
  /\ pc' = "idle"
  /\ proc' = NoProc
  /\ UNCHANGED <<wallets, blocks_db, now, contract>>

\* The running command's process is stopped between two of its steps.
Stop ==
  /\ pc # "idle"
  /\ pc' = "idle"
  /\ proc' = NoProc
  /\ result' = Outcome("killed", 0)
  /\ UNCHANGED <<wallets, blocks_db, utxos, now, contract>>

NextSteps ==
  \/ \E a \in Addresses : CreateWallet(a)
  \/ \E a \in Addresses : CreateStart(a)
  \/ CreateWrite
  \/ ReindexStart
  \/ ReindexWipe
  \/ ReindexWrite
  \/ \E from, to \in Addresses, amount \in Amounts : SendStart(from, to, amount)
  \/ AddBlockWrite
  \/ SendUpdate
  \/ Tick
  \/ Stop

SpecSteps == Init /\ [][NextSteps]_vars

(***************************************************************************)
(* The block log as the claims speak of it.                                *)
(***************************************************************************)
HasTip == LAST_KEY \in DOMAIN blocks_db
Tip == blocks_db[LAST_KEY]

\* The blocks of the log, from the tip to the genesis block.
Chain == IF HasTip THEN Iter(blocks_db, Tip) ELSE <<>>

\* The transactions of the log, in the order of the walk from the tip.
LoggedTxs == TxsOf(Chain)

\* The positions <<t, i>> of the inputs of the non-coinbase transactions of the log.
SpendingInputs ==
  {<<t, i>> \in (1..Len(LoggedTxs)) \X (1..4) :
     /\ ~is_coinbase(LoggedTxs[t])
     /\ i <= Len(LoggedTxs[t].vin)}

InputAt(p) == LoggedTxs[p[1]].vin[p[2]]

\* Does the input reference an output of a logged transaction?
RefExists(in) ==
  /\ IsSome(find_transaction(blocks_db, Tip, in.txid))
  /\ InRange(Unwrap(find_transaction(blocks_db, Tip, in.txid)), in.vout)

\* The output an input references: vout[prev_vout_index] of the logged transaction prev_txid.
RefOutput(in) == Unwrap(find_transaction(blocks_db, Tip, in.txid)).vout[in.vout + 1]

Balance(a) == getbalance(utxos, a)
Balance_next(a) == getbalance(utxos', a)

\* Some send command is run in this step.
SendStep(f, t, a) == Send(f, t, a) \/ DeepSend(f, t, a)

\* The command of this step was a send: send is the only command that
\* executes the contract of its process, which then holds the sender's entry.
SendRan ==
  /\ pc = "idle"
  /\ pc' = "idle"
  /\ now' = now
  /\ contract'.last_transaction_times # <<>>

\* The send of this step appended a block.
Appended == SendRan /\ (result'.status = "ok" \/ blocks_db' # blocks_db)

(***************************************************************************)
(* C1.  No double spend: no two non-coinbase inputs of the log reference   *)
(* the same (prev_txid, prev_vout_index).                                  *)
(***************************************************************************)
C1_NoDoubleSpend ==
  \A p, q \in SpendingInputs :
     (InputAt(p).txid = InputAt(q).txid /\ InputAt(p).vout = InputAt(q).vout) => p = q

(***************************************************************************)
(* C2.  A successful send FROM TO AMOUNT with FROM # TO and                *)
(* 0 < AMOUNT <= balance(FROM) raises the balance of TO by AMOUNT and      *)
(* leaves FROM with its old balance minus AMOUNT plus the 100-unit reward. *)
(***************************************************************************)
C2_SendMovesAmount ==
  [][\A f, t \in Addresses, a \in Amounts :
       ( /\ SendStep(f, t, a)
         /\ f # t
         /\ 0 < a
         /\ a <= Balance(f)
         /\ result'.status = "ok" )
       => /\ Balance_next(t) = Balance(t) + a
          /\ Balance_next(f) = Balance(f) - a + COINBASE_REWARD]_vars

(***************************************************************************)
(* C3.  After create and successful sends the UTXO index equals find_utxo  *)
(* of the log: the same txid keys and the same outputs under each key.     *)
(***************************************************************************)
C3_IndexIsFindUtxo ==
  (pc = "idle" /\ HasTip /\ result.status = "ok") => utxos = find_utxo(blocks_db, Tip)

(***************************************************************************)
(* C4.  Value conservation: for every non-coinbase transaction of the log  *)
(* the values of the outputs its inputs reference sum to the values of its *)
(* own outputs.                                                            *)
(***************************************************************************)
C4_ValueConservation ==
  \A t \in 1..Len(LoggedTxs) :
     LET tx == LoggedTxs[t]
     IN ~is_coinbase(tx) =>
          /\ \A i \in 1..Len(tx.vin) : RefExists(tx.vin[i])
          /\ SumSeq([i \in 1..Len(tx.vin) |-> RefOutput(tx.vin[i]).value])
               = SumSeq([i \in 1..Len(tx.vout) |-> tx.vout[i].value])

(***************************************************************************)
(* C5.  Spend authorization: the hash of the public key of every           *)
(* non-coinbase input of the log is the pub_key_hash of the output the     *)
(* input references.                                                       *)
(***************************************************************************)
C5_SpendAuthorized ==
  \A p \in SpendingInputs :
     /\ RefExists(InputAt(p))
     /\ hash_pub_key(InputAt(p).pub_key) = RefOutput(InputAt(p)).pub_key_hash

(***************************************************************************)
(* C6.  Heights increase by one along the chain: the genesis block has     *)
(* height 0, every other block its predecessor's height plus 1, and        *)
(* best_height is the number of appends.                                   *)
(***************************************************************************)
C6_HeightsIncrease ==
  HasTip =>
    /\ \A i \in 1..Len(Chain) : Chain[i].height = Len(Chain) - i
    /\ get_best_height(blocks_db).height = Len(Chain) - 1

(***************************************************************************)
(* C7.  Of two send commands of the same sender issued less than 300       *)
(* seconds apart, the second fails as rate-limited and leaves the log      *)
(* unchanged.                                                              *)
(***************************************************************************)
C7_SecondSendRateLimited ==
  [][\A f, t \in Addresses, a \in Amounts :
       ( /\ SendStep(f, t, a)
         /\ result.status = "ok"
         /\ f \in DOMAIN contract.last_transaction_times
         /\ now - contract.last_transaction_times[f] < RATE_LIMIT_INTERVAL )
       => /\ result'.status = "RateLimited"
          /\ blocks_db' = blocks_db]_vars

(***************************************************************************)
(* C8.  Hash-chain integrity and iteration: the walk from the tip yields   *)
(* every stored block exactly once and ends with the genesis block, each   *)
(* block names the next one of the walk as its predecessor, and an append  *)
(* puts the new block, whose predecessor is the old tip, in front of the   *)
(* walk.                                                                   *)
(***************************************************************************)
ChainLinked ==
  HasTip =>
    /\ Len(Chain) = Cardinality(BlockKeys(blocks_db))
    /\ \A i, j \in 1..Len(Chain) : Chain[i].hash = Chain[j].hash => i = j
    /\ \A i \in 1..Len(Chain) - 1 : Chain[i].prev_block_hash = Chain[i + 1].hash
    /\ Chain[Len(Chain)].prev_block_hash = <<>>

AppendInFront ==
  Appended
     => /\ Iter(blocks_db', blocks_db'[LAST_KEY]) = <<blocks_db'[blocks_db'[LAST_KEY]]>> \o Chain
        /\ blocks_db'[blocks_db'[LAST_KEY]].prev_block_hash = Tip

C8_HashChain == [](ChainLinked) /\ [][AppendInFront]_vars

C8_Witness ==
  /\ Len(Chain) >= 3
  /\ Chain[1].prev_block_hash = Chain[2].hash
  /\ Chain[2].prev_block_hash = Chain[3].hash

(***************************************************************************)
(* C9.  The block record is stored before the tip pointer moves: in every  *)
(* state, also between the store writes of create_blockchain and add_block *)
(* and after a process was stopped there, the value under LAST is the key  *)
(* of a stored block record.                                               *)
(***************************************************************************)
C9_LastNamesStoredBlock ==
  HasTip => /\ Tip \in BlockKeys(blocks_db)
            /\ blocks_db[Tip].hash = Tip

\* A process was stopped after add_block stored the block and before it moved LAST.
C9_Witness ==
  /\ result.status = "killed"
  /\ HasTip
  /\ \E k \in BlockKeys(blocks_db) : blocks_db[k].prev_block_hash = Tip

(***************************************************************************)
(* C10.  The log is append-only under add_block: a send that appends       *)
(* leaves every stored block record as it was, adds exactly one record,    *)
(* keyed by the new block's hash, and sets LAST to that hash, which was    *)
(* not the key of any record before.                                       *)
(***************************************************************************)
C10_AppendOnly ==
  [][Appended
       => /\ \A k \in BlockKeys(blocks_db) :
               k \in BlockKeys(blocks_db') /\ blocks_db'[k] = blocks_db[k]
          /\ Cardinality(BlockKeys(blocks_db') \ BlockKeys(blocks_db)) = 1
          /\ blocks_db'[LAST_KEY] \in BlockKeys(blocks_db') \ BlockKeys(blocks_db)
          /\ blocks_db'[blocks_db'[LAST_KEY]].hash = blocks_db'[LAST_KEY]]_vars

C10_Witness ==
  /\ Cardinality(BlockKeys(blocks_db)) >= 3
  /\ result.status = "ok"
  /\ ~is_coinbase(blocks_db[Tip].transactions[2])

(***************************************************************************)
(* C11.  The id of every transaction stored in the log, coinbase and       *)
(* signed transfer alike, is the hash of that stored transaction with the  *)
(* id field cleared.                                                       *)
(***************************************************************************)
C11_IdIsHashOfStored ==
  \A t \in 1..Len(LoggedTxs) : LoggedTxs[t].id = TxHash(LoggedTxs[t])

(***************************************************************************)
(* C12.  Every non-coinbase transaction of the log verifies: verify, given *)
(* the previous transactions that find_transaction returns for the ids its *)
(* inputs reference, returns true.                                         *)
(***************************************************************************)
C12_LoggedTransfersVerify ==
  \A t \in 1..Len(LoggedTxs) :
     ~is_coinbase(LoggedTxs[t]) =>
        verify_transaction(blocks_db, Tip, LoggedTxs[t]) = [status |-> "ok", valid |-> TRUE]

\* The log holds a verified transfer with two inputs, signed one by one.
C12_Witness ==
  \E t \in 1..Len(LoggedTxs) :
     /\ ~is_coinbase(LoggedTxs[t])
     /\ Len(LoggedTxs[t].vin) >= 2
     /\ LoggedTxs[t].vin[1].signature # LoggedTxs[t].vin[2].signature
     /\ verify_transaction(blocks_db, Tip, LoggedTxs[t]).valid

(***************************************************************************)
(* C13.  Every non-coinbase input of the log references an output that     *)
(* exists: a transaction with id prev_txid is stored in a strictly earlier *)
(* block of the chain and prev_vout_index is an index into its vout list.  *)
(* This also holds when a process was stopped between two store writes.    *)
(***************************************************************************)
\* In the walk from the tip an earlier block has a greater position.
ReferencedEarlier(b, in) ==
  \E e \in (b + 1)..Len(Chain) :
     \E t \in 1..Len(Chain[e].transactions) :
        /\ Chain[e].transactions[t].id = in.txid
        /\ InRange(Chain[e].transactions[t], in.vout)

C13_InputsReferenceEarlierOutputs ==
  \A b \in 1..Len(Chain) :
     \A t \in 1..Len(Chain[b].transactions) :
        LET tx == Chain[b].transactions[t]
        IN ~is_coinbase(tx) =>
             \A i \in 1..Len(tx.vin) : ReferencedEarlier(b, tx.vin[i])

\* A transfer whose input references the genesis block has just been appended;
\* the index has not been updated yet.
C13_Witness ==
  /\ pc = "update"
  /\ Len(Chain) >= 2
  /\ ~is_coinbase(Chain[1].transactions[2])
  /\ ReferencedEarlier(1, Chain[1].transactions[2].vin[1])

(***************************************************************************)
(* C14.  In every block of the log, the genesis block and every block      *)
(* appended by send, transactions[0] is a coinbase transaction and no      *)
(* other transaction of the block is one.                                  *)
(***************************************************************************)
C14_OnlyFirstIsCoinbase ==
  \A k \in BlockKeys(blocks_db) :
     /\ Len(blocks_db[k].transactions) >= 1
     /\ \A t \in 1..Len(blocks_db[k].transactions) :
           is_coinbase(blocks_db[k].transactions[t]) <=> t = 1

\* The log holds the genesis block and a block appended by send whose transfer
\* has a single input, as a coinbase transaction has.
C14_Witness ==
  /\ Len(Chain) >= 2
  /\ Len(Chain[Len(Chain)].transactions) = 1
  /\ Len(Chain[1].transactions) = 2
  /\ Len(Chain[1].transactions[2].vin) = 1

(***************************************************************************)
(* C15.  For every block of the log the stored hash is the hash recomputed *)
(* from the stored fields (prev_block_hash, Merkle root of the             *)
(* transactions, timestamp, difficulty, nonce) and begins with             *)
(* TARGET_HEXT zeros, so validate returns true on it.                      *)
(***************************************************************************)
C15_StoredHashIsValid ==
  \A k \in BlockKeys(blocks_db) :
     /\ blocks_db[k].hash = generate_hash(blocks_db[k])
     /\ LeadingZeros(blocks_db[k].hash) >= TARGET_HEXT
     /\ validate(blocks_db[k])

\* The log holds a genesis block and an appended block that were both mined with
\* a nonce found by search.
C15_Witness ==
  /\ Len(Chain) >= 2
  /\ Chain[1].nonce > 0
  /\ Chain[Len(Chain)].nonce > 0
  /\ validate(Chain[1])

(***************************************************************************)
(* C16.  A send FROM TO AMOUNT on an existing chain, between known         *)
(* wallets, in which the spendable total of FROM in the index is less than *)
(* AMOUNT fails with the insufficient-funds error carrying that total and  *)
(* leaves the log, LAST and the index unchanged.                           *)
(***************************************************************************)
C16_InsufficientFundsFails ==
  [][\A f, t \in Addresses, a \in Amounts :
       ( /\ HasTip
         /\ f \in wallets
         /\ t \in wallets
         /\ Balance(f) < a
         /\ SendStep(f, t, a) )
       => /\ result' = Outcome("InsufficientFunds", Balance(f))
          /\ blocks_db' = blocks_db
          /\ utxos' = utxos]_vars

(***************************************************************************)
(* The send command run once more by the process of the last send          *)
(* (Cli::run called again in that process): the guard finds the entry the  *)
(* first run left in RATE_LIMIT_CONTRACT.                                  *)
(***************************************************************************)
SendAgain(from, to, amount) ==
  /\ pc = "idle"
  /\ from \in DOMAIN contract.last_transaction_times
  /\ Cardinality(BlockKeys(blocks_db)) < MaxBlocks
  /\ \E o \in SendWith(contract, wallets, utxos, blocks_db, from, to, amount, now) :
       /\ contract' = o.contract
       /\ IF o.status = "ok"
          THEN /\ blocks_db' = ApplyWrites(blocks_db, o.writes)
               /\ LET u == update(utxos, o.block)
                  IN /\ utxos' = u.db
                     /\ result' = Outcome(u.status, 0)
          ELSE /\ blocks_db' = blocks_db
               /\ utxos' = utxos
               /\ result' = Outcome(o.status, o.detail)
  /\ UNCHANGED <<wallets, now, pc, proc>>

NextProcess ==
  \/ \E a \in Addresses : CreateWallet(a)
  \/ \E a \in Addresses : Create(a)
  \/ Reindex
  \/ \E from, to \in Addresses, amount \in Amounts : Send(from, to, amount)
  \/ \E from, to \in Addresses, amount \in Amounts : SendAgain(from, to, amount)
  \/ Tick

SpecProcess == Init /\ [][NextProcess]_vars

(***************************************************************************)
(* C17.  When the guard rejects a send, the command fails before any       *)
(* transaction is built: the log, LAST, the index and the wallet store are *)
(* unchanged.                                                              *)
(***************************************************************************)
GuardRejects(f) ==
  \E oc \in BOOLEAN : execute(contract, f, now, oc).status = "RateLimited"

C17_RejectedSendChangesNothing ==
  [][\A f, t \in Addresses, a \in Amounts :
       (GuardRejects(f) /\ SendAgain(f, t, a))
       => /\ result'.status = "RateLimited"
          /\ blocks_db' = blocks_db
          /\ utxos' = utxos
          /\ wallets' = wallets
          /\ contract' = contract]_vars

\* A send that had every means to succeed was rejected by the guard.
C17_Witness ==
  /\ result.status = "RateLimited"
  /\ Len(Chain) >= 2
  /\ \E f \in DOMAIN contract.last_transaction_times :
        \E t \in wallets : Balance(t) >= 30 /\ f \in wallets

LoggedOutputs ==
  {<<t, i>> \in (1..Len(LoggedTxs)) \X (1..2) : i <= Len(LoggedTxs[t].vout)}

\* No non-coinbase input of the log references (id of transaction t, index i - 1).
Unreferenced(p) ==
  \A q \in SpendingInputs :
     ~(InputAt(q).txid = LoggedTxs[p[1]].id /\ InputAt(q).vout = p[2] - 1)

ScanIds == {LoggedTxs[p[1]].id : p \in {q \in LoggedOutputs : Unreferenced(q)}}

\* How often the scan holds the output out under txid, and how often the index does.
ScanCount(txid, out) ==
  Cardinality({p \in LoggedOutputs :
                 /\ Unreferenced(p)
                 /\ LoggedTxs[p[1]].id = txid
                 /\ LoggedTxs[p[1]].vout[p[2]] = out})

IndexCount(txid, out) ==
  Cardinality({i \in 1..Len(utxos[txid]) : utxos[txid][i] = out})

ScanBalance(a) ==
  LET mine == {p \in LoggedOutputs :
                 Unreferenced(p) /\ LoggedTxs[p[1]].vout[p[2]].pub_key_hash = AddressBody(a)}
      RECURSIVE Sum(_)
      Sum(S) == IF S = {} THEN 0
                ELSE LET p == CHOOSE x \in S : TRUE
                     IN LoggedTxs[p[1]].vout[p[2]].value + Sum(S \ {p})
  IN Sum(mine)

IndexIsScan ==
  /\ DOMAIN utxos = ScanIds
  /\ \A txid \in ScanIds :
        \A p \in LoggedOutputs :
           IndexCount(txid, LoggedTxs[p[1]].vout[p[2]]) = ScanCount(txid, LoggedTxs[p[1]].vout[p[2]])
  /\ \A txid \in DOMAIN utxos : \A i \in 1..Len(utxos[txid]) :
        ScanCount(txid, utxos[txid][i]) > 0
  /\ count_transactions(utxos) = Cardinality(ScanIds)
  /\ \A a \in Addresses : Balance(a) = ScanBalance(a)

(***************************************************************************)
(* C19.  After reindex the index holds exactly the full scan of the log:   *)
(* an output of a logged transaction is in it, under the transaction's id, *)
(* if and only if no non-coinbase input of the log references its          *)
(* (txid, output index); the count and the outputs of each address agree   *)
(* with the scan.                                                          *)
(***************************************************************************)
C19_ReindexGivesScan ==
  [][(Reindex /\ HasTip) => (utxos' = find_utxo(blocks_db, Tip) /\ IndexIsScan')]_vars

(***************************************************************************)
(* C20.  find_utxo preserves the original vout positions of the surviving  *)
(* outputs: for every txid of its result, the output at position i of the  *)
(* returned record is the output at index i of that transaction's vout     *)
(* list, also when an output at a lower index has been spent.              *)
(***************************************************************************)
C20_FindUtxoKeepsPositions ==
  HasTip =>
    LET found == find_utxo(blocks_db, Tip)
    IN \A txid \in DOMAIN found :
          /\ IsSome(find_transaction(blocks_db, Tip, txid))
          /\ \A i \in 1..Len(found[txid]) :
                /\ i <= Len(Unwrap(find_transaction(blocks_db, Tip, txid)).vout)
                /\ found[txid][i] = Unwrap(find_transaction(blocks_db, Tip, txid)).vout[i]

(***************************************************************************)
(* The commands when AMOUNT ranges over the integers the send command      *)
(* parses (cli/mod.rs, line 93: an i32), zero and negative ones included.  *)
(***************************************************************************)
SignedAmounts == {-5, 0, 30}

SignedSend(from, to, amount) == SendCmd(from, to, amount, MaxBlocks)

NextSigned ==
  \/ \E a \in Addresses : CreateWallet(a)
  \/ \E a \in Addresses : Create(a)
  \/ Reindex
  \/ \E from, to \in Addresses, amount \in SignedAmounts : SignedSend(from, to, amount)
  \/ Tick

SpecSigned == Init /\ [][NextSigned]_vars

(***************************************************************************)
(* C21.  Every output of every logged transaction and every output stored  *)
(* in the index has a non-negative value, whatever AMOUNT the send command *)
(* was given (zero and negative integers included); hence no balance is    *)
(* negative.                                                               *)
(***************************************************************************)
C21_ValuesNonNegative ==
  /\ \A t \in 1..Len(LoggedTxs) :
        \A i \in 1..Len(LoggedTxs[t].vout) : LoggedTxs[t].vout[i].value >= 0
  /\ \A txid \in DOMAIN utxos :
        \A i \in 1..Len(utxos[txid]) : utxos[txid][i].value >= 0
  /\ \A a \in Addresses : Balance(a) >= 0

\* The store db holds the genesis block for address a and nothing else.
IsGenesisFor(db, a) ==
  /\ LAST_KEY \in DOMAIN db
  /\ BlockKeys(db) = {db[LAST_KEY]}
  /\ LET g == db[db[LAST_KEY]]
     IN /\ g.hash = db[LAST_KEY]
        /\ g.prev_block_hash = <<>>
        /\ g.height = 0
        /\ Len(g.transactions) = 1
        /\ is_coinbase(g.transactions[1])
        /\ g.transactions[1].vout = << [value |-> COINBASE_REWARD, pub_key_hash |-> AddressBody(a)] >>

(***************************************************************************)
(* C22.  create A, run from any state, leaves a log of exactly one block:  *)
(* the genesis block, with an empty previous hash, height 0 and the single *)
(* coinbase transaction paying 100 to A; LAST holds its hash; the index    *)
(* holds exactly one record; the balance of A is 100 and the balance of    *)
(* every other address is 0; the wallet store is unchanged.                *)
(***************************************************************************)
C22_CreateResets ==
  [][\A a \in Addresses :
       Create(a) =>
         /\ IsGenesisFor(blocks_db', a)
         /\ count_transactions(utxos') = 1
         /\ Balance_next(a) = COINBASE_REWARD
         /\ \A b \in Addresses \ {a} : Balance_next(b) = 0
         /\ wallets' = wallets]_vars

\* create has run after time has passed, with both wallets in the store.
C22_Witness ==
  /\ wallets = Addresses
  /\ \E a \in Addresses : IsGenesisFor(blocks_db, a)
  /\ Chain[1].timestamp > 0
  /\ count_transactions(utxos) = 1

\* The stored blocks, and a stored block read back with its nonce replaced by n.
StoredBlocks == {blocks_db[h] : h \in BlockKeys(blocks_db)}
WithNonce(block, n) == [block EXCEPT !.nonce = n]

(***************************************************************************)
(* C23.  Tamper detection: for every stored block, replacing its nonce by  *)
(* any different value makes validate return false.                        *)
(***************************************************************************)
C23_AnyOtherNonceFails ==
  \A block \in StoredBlocks :
    \A n \in 0..MaxNonce :
      n # block.nonce => ~validate(WithNonce(block, n))

(***************************************************************************)
(* C23, amended.  Every stored block validates as stored, and replacing    *)
(* its nonce by any smaller non-negative value makes validate return       *)
(* false: the stored nonce is the first one, counting from 0, whose hash   *)
(* meets the difficulty.  A larger nonce is rejected only when its hash    *)
(* misses the difficulty prefix.                                           *)
(***************************************************************************)
C23_SmallerNonceFails ==
  \A block \in StoredBlocks :
    /\ validate(block)
    /\ \A n \in 0..MaxNonce :
         n < block.nonce => ~validate(WithNonce(block, n))

\* A block mined with a nonce above 0 is stored.
C23_Witness == \E block \in StoredBlocks : block.nonce > 0

\* The signatures held by the inputs of a transaction, input by input.
Signatures(tx) == [i \in 1..Len(tx.vin) |-> tx.vin[i].signature]

\* The transaction tx when it holds the given id, and the given signature and
\* public key in every input, at the time sign is called.
Held(tx, id, signature, pub_key) ==
  [tx EXCEPT !.id = id,
             !.vin = [i \in 1..Len(tx.vin) |->
                        [tx.vin[i] EXCEPT !.signature = signature, !.pub_key = pub_key]]]

\* The values tried for the fields sign is to ignore.
HeldIds == {<<>>, <<"txhash", <<>>, <<>>>>}
HeldSignatures == {<<>>, <<"sig", <<>>, "skB">>}
HeldPubKeys == {"", "pkA", "pkB"}

\* The secret key of the wallet whose public key the inputs of tx carry.
SignerKey(tx) ==
  Wallet(CHOOSE a \in Addresses : Wallet(a).public_key = tx.vin[1].pub_key).secret_key

(***************************************************************************)
(* C24.  Signing idempotence: signing a logged, already signed transfer    *)
(* again with the same secret key and the same previous transactions       *)
(* writes the signatures it already holds; and the signatures written do   *)
(* not depend on the id, the signatures or the public keys the transaction *)
(* holds when sign is called, only on the references of its inputs, its    *)
(* outputs, the referenced public-key hashes and the secret key.           *)
(***************************************************************************)
C24_SignIdempotent ==
  \A t \in 1..Len(LoggedTxs) :
     ~is_coinbase(LoggedTxs[t]) /\ Len(LoggedTxs[t].vin) > 0 =>
        LET tx == LoggedTxs[t]
            p == get_prev_txs(blocks_db, Tip, tx)
            sk == SignerKey(tx)
        IN /\ p.status = "ok"
           /\ sign(tx, sk, p.prev_txs) = [status |-> "ok", tx |-> tx]
           /\ \A id \in HeldIds, s \in HeldSignatures, pk \in HeldPubKeys :
                LET r == sign(Held(tx, id, s, pk), sk, p.prev_txs)
                IN r.status = "ok" /\ Signatures(r.tx) = Signatures(tx)

\* The log holds a signed transfer with two inputs, and signing it again
\* while it holds another id leaves its signatures as they are.
C24_Witness ==
  \E t \in 1..Len(LoggedTxs) :
     /\ ~is_coinbase(LoggedTxs[t])
     /\ Len(LoggedTxs[t].vin) >= 2
     /\ \A i \in 1..Len(LoggedTxs[t].vin) : LoggedTxs[t].vin[i].signature # <<>>
     /\ LET tx == LoggedTxs[t]
            p == get_prev_txs(blocks_db, Tip, tx)
        IN Signatures(sign(Held(tx, <<>>, <<>>, ""), SignerKey(tx), p.prev_txs).tx) = Signatures(tx)

(***************************************************************************)
(* Several threads of one process run the send handler (cli/mod.rs, lines  *)
(* 95-110) on the process's RATE_LIMIT_CONTRACT.  Here proc holds the      *)
(* mutex of the contract (lock: 0 when free, the holder's number when      *)
(* held, -1 when poisoned by a panic of its holder) and the locals of each *)
(* thread; execute is taken in two steps, the read of the sender's last    *)
(* time and the store of the new one.                                      *)
(***************************************************************************)
Threads == 1..NumThreads
ThreadAmounts == {30}

ThreadLocals(at, from, to, amount) ==
  [at |-> at, from |-> from, to |-> to, amount |-> amount,
   seen |-> EmptyDb, time |-> 0, admitted |-> FALSE]

InitThreads ==
  /\ wallets = Addresses
  /\ LET c == create_blockchain("A", 0)
         db == ApplyWrites(EmptyDb, c.writes)
     IN /\ blocks_db = db
        /\ utxos = reindex(db, c.block.hash)
  /\ now = 0
  /\ contract = RateLimitContractNew(RATE_LIMIT_INTERVAL)
  /\ pc = "idle"
  /\ proc = [lock |-> 0, thread |-> [t \in Threads |-> ThreadLocals("start", "A", "A", 0)]]
  /\ result = Outcome("none", 0)

\* RATE_LIMIT_CONTRACT.lock().unwrap() as it would be if the contract were
\* not behind a mutex.
ThreadLock_no_mutex(t) ==
  /\ proc.thread[t].at = "start"
  /\ \E from, to \in Addresses, amount \in ThreadAmounts :
       proc' = [proc EXCEPT !.lock = t,
                            !.thread[t] = ThreadLocals("execute", from, to, amount)]
  /\ UNCHANGED <<wallets, blocks_db, utxos, now, contract, pc, result>>

\* RATE_LIMIT_CONTRACT.lock().unwrap() (line 96): taken when the mutex is
\* free; a poisoned mutex makes unwrap panic.
ThreadLock(t) ==
  /\ proc.thread[t].at = "start"
  /\ proc.lock \in {0, -1}
  /\ \E from, to \in Addresses, amount \in ThreadAmounts :
       IF proc.lock = 0
       THEN /\ proc' = [proc EXCEPT !.lock = t,
                                    !.thread[t] = ThreadLocals("execute", from, to, amount)]
            /\ result' = result
       ELSE /\ proc' = [proc EXCEPT !.thread[t] = ThreadLocals("done", from, to, amount)]
            /\ result' = Outcome("panic", 0)
  /\ UNCHANGED <<wallets, blocks_db, utxos, now, contract, pc>>

\* execute, lines 26-30: the clock and the sender's last time are read.
ThreadRead(t) ==
  /\ proc.thread[t].at = "execute"
  /\ proc' = [proc EXCEPT !.thread[t].at = "decide",
                          !.thread[t].time = now,
                          !.thread[t].seen = contract.last_transaction_times]
  /\ UNCHANGED <<wallets, blocks_db, utxos, now, contract, pc, result>>

\* execute, lines 31-40: the test on what was read, then the store of the new
\* time; a rejected submission returns and drops the guard (lines 107-109).
ThreadStore(t) ==
  /\ proc.thread[t].at = "decide"
  /\ LET me == proc.thread[t]
         read == [contract EXCEPT !.last_transaction_times = me.seen]
     IN \E oc \in BOOLEAN :
          LET g == execute(read, me.from, me.time, oc)
          IN IF g.status = "ok"
             THEN /\ contract' = [contract EXCEPT !.last_transaction_times =
                                     DbInsert(contract.last_transaction_times, me.from, me.time)]
                  /\ proc' = [proc EXCEPT !.thread[t].at = "body",
                                          !.thread[t].admitted = TRUE]
                  /\ result' = result
             ELSE /\ contract' = contract
                  /\ proc' = [proc EXCEPT !.thread[t].at = "done",
                                          !.lock = IF g.status = "panic" THEN -1
                                                   ELSE IF proc.lock = t THEN 0 ELSE proc.lock]
                  /\ result' = Outcome(g.status, g.wait)
  /\ UNCHANGED <<wallets, blocks_db, utxos, now, pc>>

\* Lines 99-105 under the guard: new_utxo, new_coinbase, add_block, update;
\* the guard is dropped at the end of the block, and a panic poisons the mutex.
ThreadBody(t) ==
  /\ proc.thread[t].at = "body"
  /\ LET me == proc.thread[t]
     IN \E o \in SendOutcomes(wallets, utxos, blocks_db, me.from, me.to, me.amount, now) :
          LET u == IF o.status = "ok" THEN update(utxos, o.block)
                   ELSE [status |-> o.status, db |-> utxos]
          IN /\ blocks_db' = ApplyWrites(blocks_db, o.writes)
             /\ utxos' = u.db
             /\ result' = Outcome(u.status, o.detail)
             /\ proc' = [proc EXCEPT !.thread[t].at = "done",
                                     !.lock = IF u.status = "panic" THEN -1
                                              ELSE IF proc.lock = t THEN 0 ELSE proc.lock]
  /\ UNCHANGED <<wallets, now, contract, pc>>

NextThreads ==
  \/ \E t \in Threads : ThreadLock(t)
  \/ \E t \in Threads : ThreadRead(t)
  \/ \E t \in Threads : ThreadStore(t)
  \/ \E t \in Threads : ThreadBody(t)
  \/ Tick

SpecThreads == InitThreads /\ [][NextThreads]_vars

\* Thread t is between the read of execute and the end of the store.
InExecute(t) == proc.thread[t].at \in {"execute", "decide"}
\* Thread t holds what lock() returned.
InGuard(t) == proc.thread[t].at \in {"execute", "decide", "body"}

(***************************************************************************)
(* C25.  The check and the store of the guard are atomic under the one     *)
(* lock: while a thread is between its read of the sender's last time and  *)
(* its store, no other thread runs under the guard and the map is still    *)
(* what the thread read; so of the submissions for one address that arrive *)
(* within one interval at most one is admitted.                            *)
(***************************************************************************)
C25_GuardAtomic ==
  /\ \A t1, t2 \in Threads : (t1 # t2 /\ InGuard(t1)) => ~InGuard(t2)
  /\ \A t \in Threads :
        proc.thread[t].at = "decide" =>
           proc.thread[t].seen = contract.last_transaction_times
  /\ \A t1, t2 \in Threads :
        ( /\ t1 # t2
          /\ proc.thread[t1].admitted
          /\ proc.thread[t2].admitted
          /\ proc.thread[t1].from = proc.thread[t2].from
          /\ proc.thread[t1].time <= proc.thread[t2].time )
        => proc.thread[t2].time - proc.thread[t1].time >= RATE_LIMIT_INTERVAL

\* Two threads have submitted for the same address within one interval: one
\* was admitted and the other was turned away by the guard.
C25_Witness ==
  \E t1, t2 \in Threads :
     /\ t1 # t2
     /\ proc.thread[t1].from = proc.thread[t2].from
     /\ proc.thread[t1].admitted
     /\ proc.thread[t2].at = "done"
     /\ ~proc.thread[t2].admitted
     /\ result.status = "RateLimited"

\* The block appended by the send of this step, and the inputs of its transfers.
NewBlock == blocks_db'[blocks_db'[LAST_KEY]]
ChosenAt(txid) ==
  {NewBlock.transactions[t].vin[i].vout :
     <<t, i>> \in {<<t, i>> \in (1..Len(NewBlock.transactions)) \X (1..4) :
                     /\ ~is_coinbase(NewBlock.transactions[t])
                     /\ i <= Len(NewBlock.transactions[t].vin)
                     /\ NewBlock.transactions[t].vin[i].txid = txid}}
NewIds == {NewBlock.transactions[t].id : t \in 1..Len(NewBlock.transactions)}

\* The outputs of a record that are left when the positions in chosen are removed.
RECURSIVE Unchosen(_, _, _)
Unchosen(outs, chosen, at) ==
  IF outs = <<>> THEN <<>>
  ELSE (IF at \in chosen THEN <<>> ELSE <<Head(outs)>>) \o Unchosen(Tail(outs), chosen, at + 1)

(***************************************************************************)
(* C26.  update(block) removes from the index exactly the outputs chosen   *)
(* as the inputs of the block's transfer, also when two or more of them    *)
(* belong to the record of one txid: after a send that appended a block,   *)
(* every record that the block does not write anew holds the outputs it    *)
(* held before without the chosen ones, and is gone when none is left.     *)
(***************************************************************************)
C26_UpdateRemovesChosen ==
  [][(Appended /\ result'.status = "ok") =>
       \A txid \in (DOMAIN utxos) \ NewIds :
          LET left == Unchosen(utxos[txid], ChosenAt(txid), 0)
          IN IF left = <<>> THEN txid \notin DOMAIN utxos'
             ELSE txid \in DOMAIN utxos' /\ utxos'[txid] = left]_vars

\* The outputs (txid, i) of a selection, and the sum of their values in db.
Selected(sel) ==
  {<<txid, sel[txid][j]>> : <<txid, j>> \in
     {<<txid, j>> \in (DOMAIN sel) \X (1..4) : j <= Len(sel[txid])}}

RECURSIVE SelectedSum(_, _)
SelectedSum(db, pairs) ==
  IF pairs = {} THEN 0
  ELSE LET p == CHOOSE p \in pairs : TRUE
       IN db[p[1]][p[2] + 1].value + SelectedSum(db, pairs \ {p})

\* The output added last to a non-empty selection made over the given order.
LastAdded(sel, order) ==
  LET last == CHOOSE i \in 1..Len(order) :
                /\ order[i] \in DOMAIN sel
                /\ \A j \in (i + 1)..Len(order) : order[j] \notin DOMAIN sel
      txid == order[last]
  IN <<txid, sel[txid][Len(sel[txid])]>>

\* The outputs (txid, i) of db that are locked to pub_key_hash.
LockedOutputs(db, pub_key_hash) ==
  {<<txid, i>> \in (DOMAIN db) \X (0..3) :
     i < Len(db[txid]) /\ is_locked_with_key(db[txid][i + 1], pub_key_hash)}

\* The postcondition of find_spendable_outputs(pub_key_hash, amount) = r over db.
SelectionPost(db, pub_key_hash, amount, order, r) ==
  LET chosen == Selected(r.unspent_outputs)
  IN /\ chosen \subseteq LockedOutputs(db, pub_key_hash)
     /\ \A txid \in DOMAIN r.unspent_outputs :
           \A j, k \in 1..Len(r.unspent_outputs[txid]) :
              j # k => r.unspent_outputs[txid][j] # r.unspent_outputs[txid][k]
     /\ r.accumulated = SelectedSum(db, chosen)
     /\ \/ /\ r.accumulated >= amount
           /\ chosen # {}
           /\ SelectedSum(db, chosen \ {LastAdded(r.unspent_outputs, order)}) < amount
        \/ /\ r.accumulated < amount
           /\ chosen = LockedOutputs(db, pub_key_hash)

(***************************************************************************)
(* C27.  find_spendable_outputs(pkh, amount) with amount > 0 returns the   *)
(* pair (accumulated, selection) in which every selected (txid, i) is an   *)
(* output of the index locked to pkh, accumulated is the sum of the values *)
(* of the selected outputs, and either accumulated >= amount while the     *)
(* selection without the output added last sums to less than amount, or    *)
(* the selection holds every output of the index locked to pkh and         *)
(* accumulated < amount.  This holds for every order in which the store    *)
(* yields its records.                                                     *)
(***************************************************************************)
C27_SelectionPost ==
  \A a \in Addresses, amount \in Amounts :
     \A order \in Perms(LockedRecords(utxos, AddressBody(a))) :
        SelectionPost(utxos, AddressBody(a), amount, order,
                      find_spendable_outputs(utxos, AddressBody(a), amount, order))

\* Both cases happen on one index: a selection of two outputs that stops with
\* the amount covered and leaves an output of the key aside, and a selection
\* of a larger amount that takes every output of the key and falls short.
C27_Witness ==
  \E a \in Addresses :
     \E order \in Perms(LockedRecords(utxos, AddressBody(a))) :
        \E small, large \in Amounts :
           LET r == find_spendable_outputs(utxos, AddressBody(a), small, order)
               q == find_spendable_outputs(utxos, AddressBody(a), large, order)
           IN /\ r.accumulated >= small
              /\ Cardinality(Selected(r.unspent_outputs)) >= 2
              /\ Selected(r.unspent_outputs) # LockedOutputs(utxos, AddressBody(a))
              /\ q.accumulated < large
              /\ Cardinality(Selected(q.unspent_outputs)) >= 3

(***************************************************************************)
(* C28.  Transaction ids are unique in the log after create and any        *)
(* sequence of successful sends, several sends of one sender included: no  *)
(* two transactions of the log carry the same id, so every key of the      *)
(* index denotes one transaction.                                          *)
(***************************************************************************)
C28_IdsUnique ==
  \A t1, t2 \in 1..Len(LoggedTxs) :
     t1 # t2 => LoggedTxs[t1].id # LoggedTxs[t2].id

\* The sum of the values of all outputs of an index.
RECURSIVE TotalOf(_, _)
TotalOf(db, keys) ==
  IF keys = {} THEN 0
  ELSE LET k == CHOOSE k \in keys : TRUE
       IN SumSeq([i \in 1..Len(db[k]) |-> db[k][i].value]) + TotalOf(db, keys \ {k})

IndexTotal == TotalOf(utxos, DOMAIN utxos)
IndexTotal_next == TotalOf(utxos', DOMAIN utxos')

(***************************************************************************)
(* C29.  Supply accounting: after create and n successful sends the values *)
(* of all outputs of the index sum to 100 * (n + 1).  Step by step: create *)
(* leaves an index whose values sum to 100, and every successful send      *)
(* raises the sum by exactly the 100 of its block's reward.                *)
(***************************************************************************)
C29_SupplyAccounting ==
  [][/\ (\E a \in Addresses : Create(a)) => IndexTotal_next = COINBASE_REWARD
     /\ (Appended /\ result'.status = "ok") =>
           IndexTotal_next = IndexTotal + COINBASE_REWARD]_vars

(***************************************************************************)
(* C30.  add_block builds the new block with the hash of the current tip   *)
(* as its previous hash and with the height of the current tip as its      *)
(* height, so get_best_height returns the same value before and after      *)
(* add_block: 0 for every chain grown from a genesis block.                *)
(***************************************************************************)
C30_HeightStaysAtTip ==
  [][Appended =>
       /\ NewBlock.prev_block_hash = Tip
       /\ NewBlock.height = blocks_db[Tip].height
       /\ get_best_height(blocks_db') = get_best_height(blocks_db)
       /\ get_best_height(blocks_db') = [status |-> "ok", height |-> 0]]_vars

\* A chain of three blocks grown from a genesis block, whose best height is 0.
C30_Witness ==
  /\ HasTip
  /\ Len(Chain) = 3
  /\ Chain[3].prev_block_hash = <<>>
  /\ Chain[1].prev_block_hash = Chain[2].hash
  /\ get_best_height(blocks_db).height = 0

(***************************************************************************)
(* C31.  The index never holds a record with an empty list of outputs:     *)
(* after reindex and after every update each stored txid has at least one  *)
(* output, and a txid whose last remaining output is spent by the block of *)
(* a send is removed from the index.                                       *)
(***************************************************************************)
C31_NoEmptyRecord ==
  [][/\ \A txid \in DOMAIN utxos' : Len(utxos'[txid]) >= 1
     /\ (Appended /\ result'.status = "ok") =>
           \A txid \in DOMAIN utxos :
              (Len(utxos[txid]) = 1 /\ 0 \in ChosenAt(txid)) => txid \notin DOMAIN utxos']_vars

\* A send has spent the only output of a logged transaction, whose key is gone
\* from the index while other records remain.
C31_Witness ==
  /\ HasTip
  /\ result.status = "ok"
  /\ utxos # EmptyDb
  /\ \E t \in 1..Len(LoggedTxs) :
        /\ LoggedTxs[t].id \notin DOMAIN utxos
        /\ Len(LoggedTxs[t].vout) = 1
        /\ \E u \in 1..Len(LoggedTxs) : \E i \in 1..Len(LoggedTxs[u].vin) :
              LoggedTxs[u].vin[i].txid = LoggedTxs[t].id /\ ~is_coinbase(LoggedTxs[u])

(***************************************************************************)
(* One RateLimitContract instance called again and again                   *)
(* (contracts/mod.rs).  Here proc holds the calls made so far: the         *)
(* address, the clock reading and the status of each.                      *)
(***************************************************************************)
ContractGaps == {RATE_LIMIT_INTERVAL - 1, RATE_LIMIT_INTERVAL}

InitContract ==
  /\ wallets = {}
  /\ blocks_db = EmptyDb
  /\ utxos = EmptyDb
  /\ now = 0
  /\ contract = RateLimitContractNew(RATE_LIMIT_INTERVAL)
  /\ pc = "idle"
  /\ proc = [calls |-> <<>>]
  /\ result = Outcome("none", 0)

\* contract.execute(wallet_address) at the clock reading now.
ExecuteCall(wallet_address) ==
  /\ Len(proc.calls) < MaxCalls
  /\ \E oc \in BOOLEAN :
       LET g == execute(contract, wallet_address, now, oc)
       IN /\ contract' = g.contract
          /\ result' = Outcome(g.status, g.wait)
          /\ proc' = [calls |-> Append(proc.calls,
                        [address |-> wallet_address, time |-> now, status |-> g.status])]
  /\ UNCHANGED <<wallets, blocks_db, utxos, now, pc>>

\* Time passes between two calls.
ClockAdvance ==
  /\ \E g \in ContractGaps : /\ now + g <= MaxContractClock
                             /\ now' = now + g
  /\ UNCHANGED <<wallets, blocks_db, utxos, contract, pc, proc, result>>

NextContract ==
  \/ \E a \in Addresses : ExecuteCall(a)
  \/ ClockAdvance

SpecContract == InitContract /\ [][NextContract]_vars

\* The calls made so far for an address that succeeded before call k.
AdmittedBefore(k, address) ==
  {j \in 1..(k - 1) : proc.calls[j].address = address /\ proc.calls[j].status = "ok"}

(***************************************************************************)
(* C32.  Within one contract instance and with a clock that does not go    *)
(* back: the first execute for an address succeeds; any two successful     *)
(* execute calls for one address are at least minimum_interval_seconds     *)
(* apart; and an execute for one address neither changes the time recorded *)
(* for another address nor depends on the calls made for other addresses   *)
(* (a call succeeds exactly when no earlier successful call for its own    *)
(* address is less than the interval back, and the recorded time of each   *)
(* address is the time of its last successful call).                       *)
(***************************************************************************)
C32_IntervalPerAddress ==
  /\ \A k \in 1..Len(proc.calls) :
        LET c == proc.calls[k]
        IN /\ (\A j \in 1..(k - 1) : proc.calls[j].address # c.address) => c.status = "ok"
           /\ c.status = "ok" <=>
                 \A j \in AdmittedBefore(k, c.address) :
                    c.time - proc.calls[j].time >= contract.minimum_interval_seconds
           /\ c.status \in {"ok", "RateLimited"}
  /\ \A a \in Addresses :
        LET admitted == AdmittedBefore(Len(proc.calls) + 1, a)
        IN IF admitted = {} THEN a \notin DOMAIN contract.last_transaction_times
           ELSE /\ a \in DOMAIN contract.last_transaction_times
                /\ contract.last_transaction_times[a] =
                     proc.calls[CHOOSE j \in admitted : \A i \in admitted : i <= j].time

\* An address was admitted, turned away 299 seconds later and admitted again
\* after the interval, while a call for the other address in between succeeded.
C32_Witness ==
  \E i, j, k, m \in 1..Len(proc.calls) :
     /\ i < j /\ j < k
     /\ proc.calls[i].address = proc.calls[j].address
     /\ proc.calls[j].address = proc.calls[k].address
     /\ proc.calls[m].address # proc.calls[i].address
     /\ i < m /\ m < k
     /\ proc.calls[i].status = "ok"
     /\ proc.calls[j].status = "RateLimited"
     /\ proc.calls[k].status = "ok"
     /\ proc.calls[m].status = "ok"
     /\ proc.calls[m].time - proc.calls[i].time < RATE_LIMIT_INTERVAL

(***************************************************************************)
(* C33.  A rejected execute(address) leaves the whole map of last times    *)
(* unchanged, so retries do not extend the wait, and reports the remaining *)
(* wait minimum_interval_seconds - (now - last), a value between 1 and     *)
(* minimum_interval_seconds.                                               *)
(***************************************************************************)
C33_RejectionChangesNothing ==
  [][\A a \in Addresses :
       (ExecuteCall(a) /\ result'.status # "ok") =>
          /\ result'.status = "RateLimited"
          /\ contract' = contract
          /\ a \in DOMAIN contract.last_transaction_times
          /\ result'.detail =
               contract.minimum_interval_seconds - (now - contract.last_transaction_times[a])
          /\ result'.detail >= 1
          /\ result'.detail <= contract.minimum_interval_seconds]_vars

\* A call was turned away twice, at the time of the admitted call with the
\* whole interval to wait and 299 seconds later with 1 second to wait.
C33_Witness ==
  \E i, j, k \in 1..Len(proc.calls) :
     /\ i < j /\ j < k
     /\ proc.calls[i].address = proc.calls[j].address
     /\ proc.calls[j].address = proc.calls[k].address
     /\ proc.calls[i].status = "ok"
     /\ proc.calls[j].status = "RateLimited"
     /\ proc.calls[j].time = proc.calls[i].time
     /\ proc.calls[k].status = "RateLimited"
     /\ proc.calls[k].time = now
     /\ result = Outcome("RateLimited", 1)
     /\ contract.last_transaction_times[proc.calls[i].address] = proc.calls[i].time

\* The outcomes of a send that passed the guard and then failed in new_utxo.
FailedAfterGuard == {"SourceWalletNotFound", "DestinationWalletNotFound", "InsufficientFunds"}

\* The send that the guard admitted for f at the recorded time appended no block.
AdmittedWithoutBlock(f) ==
  /\ f \in DOMAIN contract.last_transaction_times
  /\ \A i \in 1..Len(Chain) :
        ~ /\ Chain[i].prev_block_hash # <<>>
          /\ Chain[i].timestamp = get_timestamp(contract.last_transaction_times[f])
          /\ Chain[i].transactions[1] = new_coinbase(f, "Reward!")

(***************************************************************************)
(* C34.  The guard records the time of a send before the transfer is       *)
(* built: within one process, after a send from an address that passed the *)
(* guard and then failed for an unknown wallet or for insufficient funds,  *)
(* without appending a block, a further send from that address made before *)
(* the interval has passed is rejected by the guard and changes nothing.   *)
(***************************************************************************)
C34_FailedSendStillCounts ==
  [][\A f, t \in Addresses, a \in Amounts :
     /\ ( /\ result'.status \in FailedAfterGuard
          /\ now' = now
          /\ (Send(f, t, a) \/ SendAgain(f, t, a)) )
       => /\ blocks_db' = blocks_db
          /\ f \in DOMAIN contract'.last_transaction_times
          /\ contract'.last_transaction_times[f] = now
     /\
       ( /\ result.status \in FailedAfterGuard
         /\ AdmittedWithoutBlock(f)
         /\ now - contract.last_transaction_times[f] < RATE_LIMIT_INTERVAL
         /\ SendAgain(f, t, a) )
       => /\ result'.status = "RateLimited"
          /\ blocks_db' = blocks_db
          /\ utxos' = utxos
          /\ contract' = contract]_vars

\* The guard has turned away a send whose sender's admitted send had failed
\* and appended no block.
C34_Witness ==
  /\ result.status = "RateLimited"
  /\ HasTip
  /\ \E f \in Addresses :
        /\ AdmittedWithoutBlock(f)
        /\ result.detail = RATE_LIMIT_INTERVAL - (now - contract.last_transaction_times[f])
        /\ DOMAIN contract.last_transaction_times = {f}

\* The arguments given to Block::new: the transaction list, previous hash and
\* height of each stored block.
MinedFrom ==
  {<<b.transactions, b.prev_block_hash, b.height>> : b \in StoredBlocks}

\* The clock readings at which Block::new is called.
MinedAt == {now} \cup (0..(PowClasses - 1))

\* The postcondition of Block::new(data, prev_block_hash, height) = block at clock reading t.
MinedPost(data, prev_block_hash, height, t, block) ==
  /\ block.timestamp = get_timestamp(t)
  /\ block.transactions = data
  /\ block.prev_block_hash = prev_block_hash
  /\ block.height = height
  /\ block.nonce >= 0
  /\ block.hash = generate_hash(block)
  /\ LeadingZeros(block.hash) >= TARGET_HEXT
  /\ \A n \in 0..(block.nonce - 1) :
        LeadingZeros(generate_hash(WithNonce(block, n))) < TARGET_HEXT

(***************************************************************************)
(* C35.  Mining in Block::new starts at nonce 0 and goes up by one: it     *)
(* ends when a valid nonce exists, and the block returned carries the      *)
(* smallest non-negative nonce whose hash of (previous hash, Merkle root,  *)
(* timestamp, difficulty, nonce) meets the difficulty, with hash set to    *)
(* that hash; timestamp, transactions, previous hash and height are the    *)
(* ones the block was built with.                                          *)
(***************************************************************************)
C35_MinedNonceIsSmallest ==
  \A args \in MinedFrom, t \in MinedAt :
     MinedPost(args[1], args[2], args[3], t,
               BlockNew(args[1], args[2], args[3], t))

\* Block::new has searched up to the last nonce of a cycle of the digest classes
\* for the arguments of a stored block, and the stored tip is what Block::new
\* returns for its own arguments.
C35_Witness ==
  /\ \E args \in MinedFrom, t \in MinedAt :
        BlockNew(args[1], args[2], args[3], t).nonce = PowClasses - 1
  /\ HasTip
  /\ Len(Chain) >= 2
  /\ \E t \in MinedAt :
        BlockNew(Chain[1].transactions, Chain[1].prev_block_hash, Chain[1].height, t) = Chain[1]

\* The ids of the logged transactions, and the other address of the two.
LoggedIds == {LoggedTxs[t].id : t \in 1..Len(LoggedTxs)}
OtherAddress(pkh) == CHOOSE h \in {AddressBody(a) : a \in Addresses} : h # pkh

\* The transactions that differ from the signed transaction tx in one place: the
\* value or the public-key hash of an output, the txid or the vout of an input,
\* or the signature of an input, replaced by one made with another secret key.
Alterations(tx, prev_txs) ==
  {[tx EXCEPT !.vout[i].value = @ + 1] : i \in 1..Len(tx.vout)}
  \cup {[tx EXCEPT !.vout[i].pub_key_hash = OtherAddress(@)] : i \in 1..Len(tx.vout)}
  \cup UNION {{[tx EXCEPT !.vin[i].txid = id] : id \in LoggedIds \ {tx.vin[i].txid}}
                : i \in 1..Len(tx.vin)}
  \cup UNION {{[tx EXCEPT !.vin[i].vout = v] : v \in (0..2) \ {tx.vin[i].vout}}
                : i \in 1..Len(tx.vin)}
  \cup UNION {{[tx EXCEPT !.vin[i].signature =
                   Ed25519Signature(SignedCopyId(tx, prev_txs, i), Wallet(a).secret_key)]
                 : a \in {a \in Addresses : Wallet(a).public_key # tx.vin[i].pub_key}}
                : i \in 1..Len(tx.vin)}

(***************************************************************************)
(* C36.  verify rejects a transaction altered after signing: for a logged  *)
(* transfer signed by sign, when the value or the public-key hash of an    *)
(* output, or the txid or the vout of an input, is changed, or the         *)
(* signature of an input is replaced by one made with another secret key,  *)
(* verify with the same map of previous transactions returns false.        *)
(***************************************************************************)
C36_AlteredIsRejected ==
  \A t \in 1..Len(LoggedTxs) :
     (~is_coinbase(LoggedTxs[t]) /\ Len(LoggedTxs[t].vin) > 0) =>
        LET tx == LoggedTxs[t]
            p == get_prev_txs(blocks_db, Tip, tx)
        IN /\ p.status = "ok"
           /\ verify(tx, p.prev_txs) = [status |-> "ok", valid |-> TRUE]
           /\ \A alt \in Alterations(tx, p.prev_txs) :
                 verify(alt, p.prev_txs) = [status |-> "ok", valid |-> FALSE]

(***************************************************************************)
(* C37.  A send appends a block only when it moves a positive amount:      *)
(* every non-coinbase transaction of the log has at least one input and    *)
(* pays a positive amount, and a send with AMOUNT <= 0 fails without       *)
(* appending a block, minting a reward or changing the index.              *)
(***************************************************************************)
C37_SendsMovePositive ==
  [][/\ \A t \in 1..Len(LoggedTxs) :
          ~is_coinbase(LoggedTxs[t]) =>
             /\ Len(LoggedTxs[t].vin) >= 1
             /\ LoggedTxs[t].vout[1].value > 0
     /\ \A f, t \in Addresses, a \in SignedAmounts :
          (a <= 0 /\ HasTip /\ SignedSend(f, t, a)) =>
             /\ result'.status # "ok"
             /\ blocks_db' = blocks_db
             /\ utxos' = utxos]_vars

\* The running command holds a Blockchain handle: one opened by Blockchain::new
\* or returned by create_blockchain.
HasHandle == pc \in {"add_block_write", "update", "reindex_wipe", "reindex_write"}

(***************************************************************************)
(* C38.  The tip a Blockchain handle holds in memory agrees with the       *)
(* store: after Blockchain::new, after create_blockchain and after every   *)
(* completed add_block on the handle, its current_hash is the value stored *)
(* under LAST, so the iteration, which starts from current_hash, walks the *)
(* chain that add_block, which reads LAST, appends to.                     *)
(***************************************************************************)
C38_HandleAgreesWithLast ==
  HasHandle =>
    /\ HasTip
    /\ proc.current_hash = blocks_db[LAST_KEY]
    /\ Iter(blocks_db, proc.current_hash) = Chain

\* add_block has completed on a handle opened by Blockchain::new: the handle
\* and LAST both name the new block, and update has not run yet.
C38_Witness ==
  /\ pc = "update"
  /\ proc.block.prev_block_hash # <<>>
  /\ proc.current_hash = proc.block.hash
  /\ blocks_db[LAST_KEY] = proc.block.hash
  /\ Len(Iter(blocks_db, proc.current_hash)) = 2

(***************************************************************************)
(* One contract instance when the wall clock can also be set back between  *)
(* two calls: after the first call the clock may return to the epoch, so   *)
(* that the next reading of SystemTime::now lies below a stored time.      *)
(***************************************************************************)
ClockSetBack ==
  /\ Len(proc.calls) = 1
  /\ now > 0
  /\ now' = 0
  /\ UNCHANGED <<wallets, blocks_db, utxos, contract, pc, proc, result>>

NextContractSkew ==
  \/ \E a \in Addresses : ExecuteCall(a)
  \/ ClockAdvance
  \/ ClockSetBack

SpecContractSkew == InitContract /\ [][NextContractSkew]_vars

(***************************************************************************)
(* C39.  The unsigned 64-bit arithmetic of execute never underflows: for   *)
(* every clock reading and every stored last time, a clock reading below   *)
(* the stored time included, execute returns Ok or the rate-limit error    *)
(* and the difference it compares with the interval is the true difference *)
(* of the two times.                                                       *)
(***************************************************************************)
C39_NoUnderflow ==
  [][\A a \in Addresses :
       ExecuteCall(a) =>
          /\ result'.status \in {"ok", "RateLimited"}
          /\ (a \in DOMAIN contract.last_transaction_times) =>
                \A oc \in BOOLEAN :
                   SubU64(now, contract.last_transaction_times[a], oc) =
                      [status |-> "ok", wraps |-> 0,
                       value |-> now - contract.last_transaction_times[a]]]_vars

====
